---- MODULE Spec2Model ----
(***************************************************************************)
(* Model of the partition-scoped transaction coordinator of                *)
(* tablestore-typeorm (src/src/transaction.ts) together with the parts of  *)
(* EntityManager it calls into (src/src/entity-manager.ts).                *)
(*                                                                         *)
(* One Transaction object is modelled.  Its fields are the variables       *)
(* status, startTime, timeout, partitionKey and tableName.  The wall clock *)
(* is the variable now.  Every asynchronous method is split at its awaits: *)
(* the action named after the method is the synchronous part up to the     *)
(* first request handed to the store client, and the ...Reply actions are  *)
(* the continuations that run when the store answers.  Calls do not        *)
(* overlap: a method is entered only when no call is in progress.          *)
(*                                                                         *)
(* A request is recorded by its operation, its table, the partition-key    *)
(* values of its primary keys and its transaction id; attribute columns    *)
(* and conditions are not part of the state.                               *)
(***************************************************************************)
EXTENDS Integers, Sequences, FiniteSets, TLC

VARIABLES
    status,        \* Transaction.status
    startTime,     \* Transaction.startTime (Date.now() at construction)
    timeout,       \* Transaction.timeout
    partitionKey,  \* first entry of Transaction.partitionKey: [name, value]
    tableName,     \* Transaction.tableName
    optTimeout,    \* the timeout option the transaction was started with
    now,           \* Date.now()
    pc,            \* position of the call in progress ("idle" when none)
    call,          \* the call in progress, or the last one finished
    sent,          \* requests handed to the store client by that call
    outcome,       \* how that call settled: result, error and return value
    reply,         \* the store's answer to that call's last request
    commitCalls,   \* number of commit() calls made so far
    rit,           \* position of TransactionManager.runInTransaction
    cb,            \* how the callback of runInTransaction settled
    ritOutcome,    \* how runInTransaction settled
    rows,          \* the rows of the table the queries run against
    qb,            \* the fields of the QueryBuilder in use
    qpc,           \* position of the query in progress ("idle" when none)
    qcall,         \* the query in progress, or the last one finished
    requests,      \* requests handed to the store client by that query
    response,      \* the store's answer to that query's last request
    result,        \* how that query settled
    pagination,    \* the caller's pagination over Repository.page
    pageResult,    \* how the last call of Repository.page settled
    keyMap,        \* the key map handed to encodeCursor
    encoded,       \* the cursor encodeCursor returned
    decoded,       \* what decodeCursor made of that cursor
    filter,        \* the last FilterFactory call and how it settled
    initial,       \* the version of the row before the update() calls
    stored,        \* the version of the row in the table
    updates,       \* the update() calls of the two callers
    inflight,      \* the overlapping commit / rollback calls of two callers
    received       \* the commit and abort requests the store has received

\* the variables of the query builder and of the table it reads
queryVars == <<rows, qb, qpc, qcall, requests, response, result>>

\* the variables outside the transaction coordinator
\* the variables of a pagination
pageVars == <<pagination, pageResult>>

\* the variables of a use of the cursor codec
codecVars == <<keyMap, encoded, decoded>>

\* the variable of a use of the FilterFactory
filterVars == <<filter>>

\* the variables of the update() calls on one row
updateVars == <<initial, stored, updates>>

\* the variables of overlapping calls on one transaction
overlapVars == <<inflight, received>>

restVars == <<filterVars, updateVars, overlapVars>>

otherVars == <<queryVars, pageVars, codecVars, restVars>>

vars == <<status, startTime, timeout, partitionKey, tableName, optTimeout, now,
          pc, call, sent, outcome, reply, commitCalls, rit, cb, ritOutcome,
          otherVars>>

txFields == <<startTime, timeout, partitionKey, tableName, optTimeout>>

(***************************************************************************)
(* Bounds and input sets                                                   *)
(***************************************************************************)
MaxCommits == 2          \* commit() calls explored on one transaction
MaxBatch == 2            \* operations in one batchWrite call
MaxLimit == 2            \* largest limit / take a query is given
MaxRows == 3             \* rows of the table a query runs against
MaxLen == 2              \* characters of a string value in a key map
MaxConditions == 2       \* conditions handed to one and() / or()
MaxVersion == 2          \* largest version of the row before it is updated

Undef == "undefined"     \* JavaScript undefined

DefaultTimeout == 60000  \* options?.timeout || 60000
MaxLifetime == 60000     \* documented longest lifetime of a transaction (ms)
DefaultLimit == 100      \* limit: this._limit || 100
InitialVersion == 1      \* options?.initialValue ?? 1 of @VersionColumn

\* timeout options a transaction is started with (given = FALSE: no option)
TimeoutOptions ==
    {[given |-> FALSE, timeout |-> 0]} \cup
    {[given |-> TRUE, timeout |-> t] : t \in {0, 120000}}

\* instants of the wall clock that are explored (ms since construction)
TimePoints == {0, 60000, 60001, 120000, 120001}

PartitionValues == {"p1", "p2"}
KeyValues == PartitionValues \cup {Undef}
\* partition-key values a transaction is started with (one is enough: the
\* entities and batches still range over equal, different and missing values)
StartValues == {"p1"}
Tables == {"transaction_users", "transaction_orders", "debug_test"}
EntityClasses == {"User", "VersionedOrder", "DebugTest"}

ACTIVE == "ACTIVE"
COMMITTED == "COMMITTED"
ABORTED == "ABORTED"
TIMEOUT == "TIMEOUT"
TransactionStatus == {ACTIVE, COMMITTED, ABORTED, TIMEOUT}

transactionId == "tx1"
NoTx == "none"

\* EntityMetadata of the registered entity classes: table, property name of
\* primaryColumns[0], and whether a version column with setOnUpdate exists.
\* User is the entity of the transaction example, VersionedOrder its Order
\* with a @VersionColumn added, DebugTest the entity of the metadata example.
getEntityMetadata(cls) ==
    CASE cls = "User" ->
           [tableName |-> "transaction_users", firstPrimaryColumn |-> "userId",
            versionColumn |-> FALSE]
      [] cls = "VersionedOrder" ->
           [tableName |-> "transaction_orders", firstPrimaryColumn |-> "userId",
            versionColumn |-> TRUE]
      [] cls = "DebugTest" ->
           [tableName |-> "debug_test", firstPrimaryColumn |-> "id",
            versionColumn |-> TRUE]

(***************************************************************************)
(* Requests handed to the store client                                     *)
(***************************************************************************)
Request(op, table, pks, tx) ==
    [op |-> op, table |-> table, pks |-> pks, transactionId |-> tx]

\* convertEntityToTablestore / convertPrimaryKeysToTablestore keep a key
\* column only when it has a value
KeyOf(v) == IF v = Undef THEN <<>> ELSE <<v>>

\* a call: the method, its arguments (entity class, value of the first
\* primary-key column, the batch; the other key columns have values),
\* who made it, and the status and whether the timeout had elapsed when it
\* was entered
Call(op, cls, pk, batch, by) ==
    [op |-> op, cls |-> cls, pk |-> pk, batch |-> batch,
     by |-> by, statusBefore |-> status,
     expiredBefore |-> now - startTime > timeout]

NoArgs(op, by) == Call(op, "none", Undef, <<>>, by)

Pending == [result |-> "pending", error |-> "none", value |-> "none"]
Returned(v) == [result |-> "returned", error |-> "none", value |-> v]
Threw(e) == [result |-> "threw", error |-> e, value |-> "none"]

(***************************************************************************)
(* Construction                                                            *)
(***************************************************************************)
\* this.timeout = options?.timeout || 60000
ResolveTimeout(opt) ==
    IF opt.given /\ opt.timeout # 0 THEN opt.timeout ELSE DefaultTimeout

\* no FilterFactory is in use
FilterUnused ==
    /\ filter = "none"

\* no update() call is made
UpdateUnused ==
    /\ initial = 0
    /\ stored = 0
    /\ updates = <<>>

\* no calls overlap
OverlapUnused ==
    /\ inflight = <<>>
    /\ received = <<>>

RestUnused == FilterUnused /\ UpdateUnused /\ OverlapUnused

\* the cursor codec is not in use
CodecUnused ==
    /\ keyMap = <<>>
    /\ encoded = <<>>
    /\ decoded = "none"

\* no query builder is in use
QueryUnused ==
    /\ RestUnused
    /\ rows = {}
    /\ qb = "none"
    /\ qpc = "none"
    /\ qcall = "none"
    /\ requests = <<>>
    /\ response = "none"
    /\ result = "none"
    /\ pagination = "none"
    /\ pageResult = "none"
    /\ CodecUnused

\* the state after startTransaction has built the Transaction; rit is
\* "callback" when runInTransaction started it and is running the callback
Init ==
    /\ QueryUnused
    /\ status = ACTIVE
    /\ now = 0
    /\ startTime = now
    /\ optTimeout \in TimeoutOptions
    /\ timeout = ResolveTimeout(optTimeout)
    /\ \E cls \in EntityClasses, v \in StartValues :
          /\ tableName = getEntityMetadata(cls).tableName
          /\ partitionKey = [name |-> getEntityMetadata(cls).firstPrimaryColumn,
                             value |-> v]
    /\ pc = "idle"
    /\ call = [op |-> "startTransaction", cls |-> "none", pk |-> Undef,
               batch |-> <<>>, by |-> "user",
               statusBefore |-> ACTIVE, expiredBefore |-> FALSE]
    /\ sent = <<Request("startLocalTransaction", tableName,
                        <<partitionKey.value>>, NoTx)>>
    /\ outcome = Returned("transaction")
    /\ reply = "ok"
    /\ commitCalls = 0
    /\ rit \in {"off", "callback"}
    /\ cb = Pending
    /\ ritOutcome = Pending

(***************************************************************************)
(* Status checks                                                           *)
(***************************************************************************)
\* Date.now() - this.startTime > this.timeout
Expired == now - startTime > timeout

\* a status check that lets an ABORTED transaction through
isActiveValueAbortedOk == status \in {ACTIVE, ABORTED} /\ ~Expired

\* the value isActive() returns
isActiveValue == status = ACTIVE /\ ~Expired

\* the status isActive() leaves behind
isActiveStatus == IF status = ACTIVE /\ Expired THEN TIMEOUT ELSE status

\* partitionKey[0]?.[firstPrimaryColumn.propertyName]
transactionPartitionValue(col) ==
    IF partitionKey.name = col THEN partitionKey.value ELSE Undef

\* a validation that is skipped when the transaction's partition key has no
\* entry under the entity's first primary-key column
validatePartitionKeyLenient(cls, pk) ==
    \/ transactionPartitionValue(getEntityMetadata(cls).firstPrimaryColumn) = Undef
    \/ pk = transactionPartitionValue(getEntityMetadata(cls).firstPrimaryColumn)

\* validatePartitionKey passes (does not throw) for this entity class and
\* this value of its first primary-key column
validatePartitionKey(cls, pk) ==
    pk = transactionPartitionValue(getEntityMetadata(cls).firstPrimaryColumn)

\* convertPrimaryKeysToTablestore (allowPartial = false) does not throw
HasPrimaryKey(pk) == pk # Undef

\* the caller's code may use the transaction: it holds it directly, or it is
\* the callback of runInTransaction; calls do not overlap
UserMayCall == pc = "idle" /\ rit \in {"off", "callback"}

RitFrame == UNCHANGED <<rit, cb, ritOutcome>>

\* a call that settles without waiting for the store
Settle(c, st, reqs, o) ==
    /\ call' = c
    /\ status' = st
    /\ sent' = reqs
    /\ outcome' = o
    /\ reply' = "none"
    /\ pc' = "idle"

\* a call that hands its first request to the store client and waits
Await(c, req, at) ==
    /\ call' = c
    /\ status' = status
    /\ sent' = <<req>>
    /\ outcome' = Pending
    /\ reply' = "none"
    /\ pc' = at

\* ensureActive() threw
Inactive(c) == Settle(c, isActiveStatus, <<>>, Threw("TransactionStateError"))

getStatus ==
    /\ UserMayCall
    /\ Settle(NoArgs("getStatus", "user"), status, <<>>, Returned(status))
    /\ UNCHANGED <<txFields, otherVars, now, commitCalls>>
    /\ RitFrame

isActive ==
    /\ UserMayCall
    /\ Settle(NoArgs("isActive", "user"), isActiveStatus, <<>>,
              Returned(IF isActiveValue THEN "true" ELSE "false"))
    /\ UNCHANGED <<txFields, otherVars, now, commitCalls>>
    /\ RitFrame

(***************************************************************************)
(* save                                                                    *)
(***************************************************************************)
save ==
    /\ UserMayCall
    /\ \E cls \in EntityClasses, pk \in KeyValues :
         LET c == Call("save", cls, pk, <<>>, "user")
             metadata == getEntityMetadata(cls)
         IN  IF ~isActiveValue THEN Inactive(c)
             ELSE IF ~validatePartitionKey(cls, pk)
             THEN Settle(c, status, <<>>, Threw("PartitionMismatchError"))
             ELSE Await(c, Request("putRow", metadata.tableName, KeyOf(pk),
                                   transactionId), "putRow")
    /\ UNCHANGED <<txFields, otherVars, now, commitCalls>>
    /\ RitFrame

putRowReply ==
    /\ pc = "putRow"
    /\ \E ok \in BOOLEAN :
         /\ reply' = (IF ok THEN "ok" ELSE "error")
         /\ outcome' = IF ok THEN Returned("entity") ELSE Threw("StoreError")
    /\ pc' = "idle"
    /\ UNCHANGED <<status, txFields, otherVars, now, call, sent, commitCalls>>
    /\ RitFrame

(***************************************************************************)
(* update: Transaction.update with EntityManager.processSpecialColumns-    *)
(* OnUpdate, incrementVersionColumn and EntityManager.findOne              *)
(***************************************************************************)
\* the request EntityManager.findOne sends to read the current version:
\* getRow for a complete primary key, getRange for a partial one; it goes
\* through dataSource.getClient() and carries no transaction id
VersionRead(metadata, pk) ==
    Request(IF HasPrimaryKey(pk) THEN "getRow" ELSE "getRange",
            metadata.tableName, KeyOf(pk), NoTx)

UpdateRowRequest(metadata, pk) ==
    Request("updateRow", metadata.tableName, KeyOf(pk), transactionId)

update ==
    /\ UserMayCall
    /\ \E cls \in EntityClasses, pk \in KeyValues :
         LET c == Call("update", cls, pk, <<>>, "user")
             metadata == getEntityMetadata(cls)
         IN  IF ~isActiveValue THEN Inactive(c)
             ELSE IF ~validatePartitionKey(cls, pk)
             THEN Settle(c, status, <<>>, Threw("PartitionMismatchError"))
             ELSE IF metadata.versionColumn
             THEN Await(c, VersionRead(metadata, pk), "versionRead")
             ELSE IF ~HasPrimaryKey(pk)
             THEN Settle(c, status, <<>>, Threw("KeyError"))
             ELSE Await(c, UpdateRowRequest(metadata, pk), "updateRow")
    /\ UNCHANGED <<txFields, otherVars, now, commitCalls>>
    /\ RitFrame

\* incrementVersionColumn resumes: whatever the read answered (a row, no
\* row, or an error, which its catch swallows), update goes on to convert
\* the primary key and send updateRow
versionReadReply ==
    /\ pc = "versionRead"
    /\ \E r \in {"row", "empty", "error"} :
         /\ reply' = r
         /\ IF ~HasPrimaryKey(call.pk)
            THEN /\ outcome' = Threw("KeyError")
                 /\ pc' = "idle"
                 /\ sent' = sent
            ELSE /\ outcome' = Pending
                 /\ pc' = "updateRow"
                 /\ sent' = Append(sent, UpdateRowRequest(
                                    getEntityMetadata(call.cls), call.pk))
    /\ UNCHANGED <<status, txFields, otherVars, now, call, commitCalls>>
    /\ RitFrame

updateRowReply ==
    /\ pc = "updateRow"
    /\ \E ok \in BOOLEAN :
         /\ reply' = (IF ok THEN "ok" ELSE "error")
         /\ outcome' = IF ok THEN Returned("void") ELSE Threw("StoreError")
    /\ pc' = "idle"
    /\ UNCHANGED <<status, txFields, otherVars, now, call, sent, commitCalls>>
    /\ RitFrame

(***************************************************************************)
(* delete                                                                  *)
(***************************************************************************)
delete ==
    /\ UserMayCall
    /\ \E cls \in EntityClasses, pk \in KeyValues :
         LET c == Call("delete", cls, pk, <<>>, "user")
             metadata == getEntityMetadata(cls)
         IN  IF ~isActiveValue THEN Inactive(c)
             ELSE IF ~validatePartitionKey(cls, pk)
             THEN Settle(c, status, <<>>, Threw("PartitionMismatchError"))
             ELSE IF ~HasPrimaryKey(pk)
             THEN Settle(c, status, <<>>, Threw("KeyError"))
             ELSE Await(c, Request("deleteRow", metadata.tableName, KeyOf(pk),
                                   transactionId), "deleteRow")
    /\ UNCHANGED <<txFields, otherVars, now, commitCalls>>
    /\ RitFrame

deleteRowReply ==
    /\ pc = "deleteRow"
    /\ \E ok \in BOOLEAN :
         /\ reply' = (IF ok THEN "ok" ELSE "error")
         /\ outcome' = IF ok THEN Returned("void") ELSE Threw("StoreError")
    /\ pc' = "idle"
    /\ UNCHANGED <<status, txFields, otherVars, now, call, sent, commitCalls>>
    /\ RitFrame

(***************************************************************************)
(* findOne                                                                 *)
(***************************************************************************)
findOne ==
    /\ UserMayCall
    /\ \E cls \in EntityClasses, pk \in KeyValues :
         LET c == Call("findOne", cls, pk, <<>>, "user")
             metadata == getEntityMetadata(cls)
         IN  IF ~isActiveValue THEN Inactive(c)
             ELSE IF ~HasPrimaryKey(pk)
             THEN Settle(c, status, <<>>, Threw("KeyError"))
             ELSE Await(c, Request("getRow", metadata.tableName, KeyOf(pk),
                                   transactionId), "getRow")
    /\ UNCHANGED <<txFields, otherVars, now, commitCalls>>
    /\ RitFrame

\* the store answers with a row, with no row, with a row-not-found error
\* (isRowNotFoundError) or with another error
getRowReply ==
    /\ pc = "getRow"
    /\ \E r \in {"row", "empty", "notFound", "error"} :
         /\ reply' = r
         /\ outcome' = CASE r = "row" -> Returned("entity")
                         [] r \in {"empty", "notFound"} -> Returned("null")
                         [] r = "error" -> Threw("StoreError")
    /\ pc' = "idle"
    /\ UNCHANGED <<status, txFields, otherVars, now, call, sent, commitCalls>>
    /\ RitFrame

(***************************************************************************)
(* batchWrite                                                              *)
(***************************************************************************)
\* a BatchWriteOperation: its tableName and the partition-key value of the
\* primary key in its request
BatchTables == {"transaction_users", "transaction_orders"}

BatchOperations == [tableName : BatchTables, pk : PartitionValues]

Batches == UNION {[1..n -> BatchOperations] : n \in 0..MaxBatch}

\* for (const op of operations) if (op.tableName !== tableName) throw
SameTable(operations) ==
    \A i \in 1..Len(operations) : operations[i].tableName = operations[1].tableName

batchWrite ==
    /\ UserMayCall
    /\ \E operations \in Batches :
         LET c == Call("batchWrite", "none", Undef, operations, "user")
         IN  IF ~isActiveValue THEN Inactive(c)
             ELSE IF Len(operations) = 0
             THEN Settle(c, status, <<>>, Returned("void"))
             ELSE IF ~SameTable(operations)
             THEN Settle(c, status, <<>>, Threw("BatchTableError"))
             ELSE Await(c, Request("batchWriteRow", operations[1].tableName,
                                   [i \in 1..Len(operations) |-> operations[i].pk],
                                   transactionId), "batchWriteRow")
    /\ UNCHANGED <<txFields, otherVars, now, commitCalls>>
    /\ RitFrame

batchWriteRowReply ==
    /\ pc = "batchWriteRow"
    /\ \E ok \in BOOLEAN :
         /\ reply' = (IF ok THEN "ok" ELSE "error")
         /\ outcome' = IF ok THEN Returned("void") ELSE Threw("StoreError")
    /\ pc' = "idle"
    /\ UNCHANGED <<status, txFields, otherVars, now, call, sent, commitCalls>>
    /\ RitFrame

(***************************************************************************)
(* commit and rollback                                                     *)
(***************************************************************************)
CommitRequest == Request("commitTransaction", tableName, <<>>, transactionId)
AbortRequest == Request("abortTransaction", tableName, <<>>, transactionId)

\* a commit() without its catch block
CommitStatusNoCatch(ok) == IF ok THEN COMMITTED ELSE ACTIVE

\* the status commit() sets when the store accepts / rejects the commit
CommitStatus(ok) == IF ok THEN COMMITTED ELSE ABORTED

\* a rollback() that only skips transactions it has already aborted
RollbackSkipsAbortedOnly(s) == s = ABORTED

\* rollback() returns at once, without a request
RollbackSkips(s) == s # ACTIVE

\* a rollback() that sets the status after the await instead of in finally
RollbackStatusNoFinally(ok) == IF ok THEN ABORTED ELSE ACTIVE

\* the status the finally block of rollback() sets
RollbackStatus(ok) == ABORTED

\* commit() up to its await, called by the user's code or by runInTransaction
commitEnter(by) ==
    /\ commitCalls' = commitCalls + 1
    /\ IF ~isActiveValue THEN Inactive(NoArgs("commit", by))
       ELSE Await(NoArgs("commit", by), CommitRequest, "commitTransaction")

\* rollback() up to its await
rollbackEnter(by) ==
    IF RollbackSkips(status)
    THEN Settle(NoArgs("rollback", by), status, <<>>, Returned("void"))
    ELSE Await(NoArgs("rollback", by), AbortRequest, "abortTransaction")

commit ==
    /\ UserMayCall
    /\ commitCalls < MaxCommits
    /\ commitEnter("user")
    /\ UNCHANGED <<txFields, otherVars, now>>
    /\ RitFrame

rollback ==
    /\ UserMayCall
    /\ rollbackEnter("user")
    /\ UNCHANGED <<txFields, otherVars, now, commitCalls>>
    /\ RitFrame

(***************************************************************************)
(* runInTransaction: the callback has the transaction and calls it through *)
(* the actions above while rit = "callback"; then it resolves or rejects   *)
(***************************************************************************)
\* errors the callback may reject with: one of its own, or the one the last
\* call on the transaction threw
CallbackErrors ==
    {"CallbackError"} \cup
    (IF outcome.result = "threw" /\ call.op # "startTransaction"
     THEN {outcome.error} ELSE {})

\* result = await callback(transaction) resolved; await transaction.commit().
\* When commit() throws at ensureActive, the catch block calls rollback(),
\* which returns at once because the status is no longer ACTIVE, and the
\* error is thrown on.
callbackResolves ==
    /\ rit = "callback" /\ pc = "idle"
    /\ cb' = Returned("result")
    /\ commitEnter("runInTransaction")
    /\ IF isActiveValue
       THEN rit' = "commit" /\ ritOutcome' = Pending
       ELSE rit' = "done" /\ ritOutcome' = Threw("TransactionStateError")
    /\ UNCHANGED <<txFields, otherVars, now>>

\* callback(transaction) rejected: catch (error) { await rollback(); throw }
callbackRejects ==
    /\ rit = "callback" /\ pc = "idle"
    /\ \E e \in CallbackErrors :
         /\ cb' = Threw(e)
         /\ rollbackEnter("runInTransaction")
         /\ IF RollbackSkips(status)
            THEN rit' = "done" /\ ritOutcome' = Threw(e)
            ELSE rit' = "rollback" /\ ritOutcome' = Pending
    /\ UNCHANGED <<txFields, otherVars, now, commitCalls>>

\* the store answers commitTransaction.  For runInTransaction: a resolved
\* commit returns the callback's result; a rejected one enters the catch
\* block, where rollback() returns at once (the status is ABORTED), and is
\* thrown on.
commitTransactionReply ==
    /\ pc = "commitTransaction"
    /\ \E ok \in BOOLEAN :
         /\ reply' = (IF ok THEN "ok" ELSE "error")
         /\ status' = CommitStatus(ok)
         /\ outcome' = IF ok THEN Returned("void") ELSE Threw("CommitRejected")
         /\ IF rit = "commit"
            THEN /\ rit' = "done"
                 /\ ritOutcome' = IF ok THEN Returned(cb.value)
                                  ELSE Threw("CommitRejected")
                 /\ cb' = cb
            ELSE RitFrame
    /\ pc' = "idle"
    /\ UNCHANGED <<txFields, otherVars, now, call, sent, commitCalls>>

\* the store answers abortTransaction.  try { await abort } finally { status
\* = ABORTED }: a rejected abort is thrown on by rollback(), and in
\* runInTransaction it leaves the catch block in place of the callback's error
abortTransactionReply ==
    /\ pc = "abortTransaction"
    /\ \E ok \in BOOLEAN :
         /\ reply' = (IF ok THEN "ok" ELSE "error")
         /\ status' = RollbackStatus(ok)
         /\ outcome' = IF ok THEN Returned("void") ELSE Threw("AbortRejected")
         /\ IF rit = "rollback"
            THEN /\ rit' = "done"
                 /\ ritOutcome' = IF ok THEN Threw(cb.error)
                                  ELSE Threw("AbortRejected")
                 /\ cb' = cb
            ELSE RitFrame
    /\ pc' = "idle"
    /\ UNCHANGED <<txFields, otherVars, now, call, sent, commitCalls>>

\* the wall clock advances
Tick ==
    /\ \E t \in TimePoints : t > now /\ now' = t
    /\ UNCHANGED <<status, txFields, otherVars, pc, call, sent, outcome, reply, commitCalls>>
    /\ RitFrame

Next ==
    \/ getStatus \/ isActive
    \/ save \/ putRowReply
    \/ update \/ versionReadReply \/ updateRowReply
    \/ delete \/ deleteRowReply
    \/ findOne \/ getRowReply
    \/ batchWrite \/ batchWriteRowReply
    \/ commit \/ commitTransactionReply
    \/ rollback \/ abortTransactionReply
    \/ callbackResolves \/ callbackRejects
    \/ Tick

Spec == Init /\ [][Next]_vars

\* the variables of the transaction coordinator
txVars == <<status, txFields, now, pc, call, sent, outcome, reply, commitCalls,
            rit, cb, ritOutcome>>

\* no transaction has been started
TransactionUnused ==
    /\ status = "none"
    /\ startTime = 0
    /\ timeout = 0
    /\ partitionKey = "none"
    /\ tableName = "none"
    /\ optTimeout = "none"
    /\ now = 0
    /\ pc = "none"
    /\ call = "none"
    /\ sent = <<>>
    /\ outcome = "none"
    /\ reply = "none"
    /\ commitCalls = 0
    /\ rit = "none"
    /\ cb = "none"
    /\ ritOutcome = "none"

(***************************************************************************)
(* JavaScript values, objects and Tablestore primary keys                  *)
(*                                                                         *)
(* A value is a record of its type, its characters (code points) when it   *)
(* is a string and its number when it is a number.  An object is the       *)
(* sequence of its own properties in insertion order.  A Tablestore        *)
(* primary key is a sequence of properties as well, one per key column.    *)
(***************************************************************************)
JsUndefined == [t |-> "undefined", s |-> <<>>, n |-> 0]
JsNull == [t |-> "null", s |-> <<>>, n |-> 0]
JsString(s) == [t |-> "string", s |-> s, n |-> 0]
JsNumber(n) == [t |-> "number", s |-> <<>>, n |-> n]
INF_MIN == [t |-> "INF_MIN", s |-> <<>>, n |-> 0]
INF_MAX == [t |-> "INF_MAX", s |-> <<>>, n |-> 0]

Property(k, v) == [k |-> k, v |-> v]

\* Object.keys(o)
ObjectKeys(o) == {o[i].k : i \in 1..Len(o)}

\* o[k]
Get(o, k) ==
    IF k \in ObjectKeys(o)
    THEN o[CHOOSE i \in 1..Len(o) : o[i].k = k].v
    ELSE JsUndefined

\* value !== undefined && value !== null
HasValue(v) == v.t \notin {"undefined", "null"}

\* the values of a primary key, in column order
KeyValuesOf(primaryKey) == [i \in 1..Len(primaryKey) |-> primaryKey[i].v]

(***************************************************************************)
(* Entity metadata of the queried entities                                 *)
(***************************************************************************)
QueryEntities == {"Product", "AdvancedUser"}

\* Product is the entity of the pagination example, AdvancedUser the entity
\* of the typeorm-style example (it has a @DeleteDateColumn)
queryMetadata(cls) ==
    CASE cls = "Product" ->
           [tableName |-> "pagination_products",
            primaryColumns |-> <<"category", "id">>,
            deleteDateColumn |-> "none"]
      [] cls = "AdvancedUser" ->
           [tableName |-> "advanced_users",
            primaryColumns |-> <<"id", "category">>,
            deleteDateColumn |-> "deletedAt"]

primaryKeyNames(cls) ==
    {queryMetadata(cls).primaryColumns[i] :
        i \in 1..Len(queryMetadata(cls).primaryColumns)}

(***************************************************************************)
(* The store: an ordered table read by getRow and getRange                 *)
(***************************************************************************)
\* strings compare by their characters, a proper prefix first
RECURSIVE StringLess(_, _)
StringLess(a, b) ==
    IF b = <<>> THEN FALSE
    ELSE IF a = <<>> THEN TRUE
    ELSE IF Head(a) # Head(b) THEN Head(a) < Head(b)
    ELSE StringLess(Tail(a), Tail(b))

\* the order of the values of one key column; INF_MIN is below and INF_MAX
\* above every value
ValueLess(a, b) ==
    IF a = b THEN FALSE
    ELSE IF a.t = "INF_MIN" \/ b.t = "INF_MAX" THEN TRUE
    ELSE IF a.t = "INF_MAX" \/ b.t = "INF_MIN" THEN FALSE
    ELSE IF a.t = "number" THEN a.n < b.n
    ELSE StringLess(a.s, b.s)

\* primary keys compare column by column
RECURSIVE KeyLess(_, _)
KeyLess(a, b) ==
    IF a = <<>> \/ b = <<>> THEN FALSE
    ELSE IF Head(a) # Head(b) THEN ValueLess(Head(a), Head(b))
    ELSE KeyLess(Tail(a), Tail(b))

\* a row of the table: its primary key and its delete-date attribute
Row(primaryKey, deletedAt) == [primaryKey |-> primaryKey, deletedAt |-> deletedAt]

\* a request names every key column of the table, in order
CompleteKey(cls, primaryKey) ==
    /\ Len(primaryKey) = Len(queryMetadata(cls).primaryColumns)
    /\ \A i \in 1..Len(primaryKey) :
          primaryKey[i].k = queryMetadata(cls).primaryColumns[i]

\* the rows of S in the order of a scan: ascending keys when FORWARD,
\* descending keys when BACKWARD
RECURSIVE Scan(_, _)
Scan(S, direction) ==
    IF S = {} THEN <<>>
    ELSE LET first == CHOOSE r \in S : \A q \in S \ {r} :
                         IF direction = "FORWARD"
                         THEN KeyLess(KeyValuesOf(r.primaryKey), KeyValuesOf(q.primaryKey))
                         ELSE KeyLess(KeyValuesOf(q.primaryKey), KeyValuesOf(r.primaryKey))
         IN <<first>> \o Scan(S \ {first}, direction)

\* the rows between the inclusive start and the exclusive end of a range
InRange(table, req) ==
    LET start == KeyValuesOf(req.inclusiveStartPrimaryKey)
        end == KeyValuesOf(req.exclusiveEndPrimaryKey)
    IN {r \in table :
          LET key == KeyValuesOf(r.primaryKey)
          IN IF req.direction = "FORWARD"
             THEN ~KeyLess(key, start) /\ KeyLess(key, end)
             ELSE ~KeyLess(start, key) /\ KeyLess(end, key)}

\* the store's answer to getRow: the row, or a response without a row; a
\* primary key that does not name every key column is rejected
StoreGetRow(table, cls, req) ==
    IF ~CompleteKey(cls, req.primaryKey)
    THEN [error |-> "OTSParameterInvalid", rows |-> <<>>, nextStartPrimaryKey |-> <<>>]
    ELSE [error |-> "none",
          rows |-> Scan({r \in table : r.primaryKey = req.primaryKey}, "FORWARD"),
          nextStartPrimaryKey |-> <<>>]

\* the store's answer to getRange: at most limit rows of the range in scan
\* order, and the primary key of the next row of the range when there is one
StoreGetRange(table, cls, req) ==
    LET start == KeyValuesOf(req.inclusiveStartPrimaryKey)
        end == KeyValuesOf(req.exclusiveEndPrimaryKey)
        scan == Scan(InRange(table, req), req.direction)
    IN IF \/ ~CompleteKey(cls, req.inclusiveStartPrimaryKey)
          \/ ~CompleteKey(cls, req.exclusiveEndPrimaryKey)
          \/ (req.direction = "FORWARD" /\ KeyLess(end, start))
          \/ (req.direction = "BACKWARD" /\ KeyLess(start, end))
       THEN [error |-> "OTSParameterInvalid", rows |-> <<>>, nextStartPrimaryKey |-> <<>>]
       ELSE [error |-> "none",
             rows |-> SubSeq(scan, 1, IF Len(scan) < req.limit THEN Len(scan) ELSE req.limit),
             nextStartPrimaryKey |->
                 IF Len(scan) > req.limit THEN scan[req.limit + 1].primaryKey ELSE <<>>]

\* a request the store fails: the service is busy, or the table is missing
\* ("Requested table does not exist.")
StoreErrors == {"OTSServerBusy", "OTSObjectNotExist"}

StoreFailure(e) == [error |-> e, rows |-> <<>>, nextStartPrimaryKey |-> <<>>]

\* error?.code === 'OTSRowNotExist' || error?.message?.includes('not exist')
isRowNotFoundError(e) == e \in {"OTSRowNotExist", "OTSObjectNotExist"}

(***************************************************************************)
(* QueryBuilder (src/typeorm-style/query-builder.ts)                       *)
(*                                                                         *)
(* The builder's fields are the fields of the record qb.  An undefined     *)
(* _limit is 0 and an undefined _startPrimaryKey or _endPrimaryKey is the  *)
(* empty sequence: the code tells them apart by truthiness only, and a     *)
(* primary key built for an entity is never empty.                         *)
(***************************************************************************)
\* new QueryBuilder(entityClass, entityManager)
QueryBuilder(cls) ==
    [entityClass |-> cls, _where |-> <<>>, _orderBy |-> <<>>, _limit |-> 0,
     _startPrimaryKey |-> <<>>, _endPrimaryKey |-> <<>>]

\* where(condition): the condition replaces the one set before
where(b, condition) == [b EXCEPT !._where = condition]

\* orderBy(direction): the direction is stored under the first key column
orderBy(b, direction) ==
    [b EXCEPT !._orderBy =
        <<Property(queryMetadata(b.entityClass).primaryColumns[1], direction)>>]

limit(b, n) == [b EXCEPT !._limit = n]

getOrderDirection(b) ==
    IF Len(b._orderBy) > 0 /\ b._orderBy[1].v = "DESC" THEN "DESC" ELSE "ASC"

\* a direction that is FORWARD whatever the order
getDirectionForward(b) == "FORWARD"

getDirection(b) ==
    IF Len(b._orderBy) > 0 /\ b._orderBy[1].v = "DESC" THEN "BACKWARD" ELSE "FORWARD"

\* an auto-completion that takes every order for ascending
autoCompleteAscending(cls, partialKeys, isStart, direction) ==
    [i \in 1..Len(queryMetadata(cls).primaryColumns) |->
        LET column == queryMetadata(cls).primaryColumns[i]
            value == Get(partialKeys, column)
        IN IF HasValue(value) THEN Property(column, value)
           ELSE Property(column, IF isStart THEN INF_MIN ELSE INF_MAX)]

\* every key column that has a value keeps it; every other one gets the
\* marker of the scan's start or end for the direction
autoCompletePartialPrimaryKey(cls, partialKeys, isStart, direction) ==
    [i \in 1..Len(queryMetadata(cls).primaryColumns) |->
        LET column == queryMetadata(cls).primaryColumns[i]
            value == Get(partialKeys, column)
        IN IF HasValue(value) THEN Property(column, value)
           ELSE IF isStart
                THEN Property(column, IF direction = "ASC" THEN INF_MIN ELSE INF_MAX)
                ELSE Property(column, IF direction = "ASC" THEN INF_MAX ELSE INF_MIN)]

startWith(b, primaryKeys) ==
    [b EXCEPT !._startPrimaryKey =
        autoCompletePartialPrimaryKey(b.entityClass, primaryKeys, TRUE,
                                      getOrderDirection(b))]

endWith(b, primaryKeys) ==
    [b EXCEPT !._endPrimaryKey =
        autoCompletePartialPrimaryKey(b.entityClass, primaryKeys, FALSE,
                                      getOrderDirection(b))]

buildMinPrimaryKey(cls) ==
    [i \in 1..Len(queryMetadata(cls).primaryColumns) |->
        Property(queryMetadata(cls).primaryColumns[i], INF_MIN)]

buildMaxPrimaryKey(cls) ==
    [i \in 1..Len(queryMetadata(cls).primaryColumns) |->
        Property(queryMetadata(cls).primaryColumns[i], INF_MAX)]

\* the key columns that have a value, in column order
convertPrimaryKeysToTablestore(cls, primaryKeys) ==
    SelectSeq([i \in 1..Len(queryMetadata(cls).primaryColumns) |->
                  Property(queryMetadata(cls).primaryColumns[i],
                           Get(primaryKeys, queryMetadata(cls).primaryColumns[i]))],
              LAMBDA p : HasValue(p.v))

\* primaryKeyNames.every(pkName => Object.keys(this._where).includes(pkName))
isExactPrimaryKeyQuery(b) ==
    \A pkName \in primaryKeyNames(b.entityClass) : pkName \in ObjectKeys(b._where)

isPartialPrimaryKeyQuery(b) ==
    /\ \E key \in ObjectKeys(b._where) : key \in primaryKeyNames(b.entityClass)
    /\ ~(\A pkName \in primaryKeyNames(b.entityClass) : pkName \in ObjectKeys(b._where))

\* a conversion that replaces a start key that was already set
convertPartialPrimaryKeyToRangeOverwrite(b) ==
    [b EXCEPT
       !._startPrimaryKey =
            autoCompletePartialPrimaryKey(b.entityClass, b._where, TRUE,
                                          getOrderDirection(b)),
       !._endPrimaryKey =
            IF b._endPrimaryKey = <<>>
            THEN autoCompletePartialPrimaryKey(b.entityClass, b._where, FALSE,
                                               getOrderDirection(b))
            ELSE b._endPrimaryKey,
       !._where = <<>>]

\* the start and the end key are derived from the where condition unless
\* they were set before, and the where condition is cleared
convertPartialPrimaryKeyToRange(b) ==
    [b EXCEPT
       !._startPrimaryKey =
            IF b._startPrimaryKey = <<>>
            THEN autoCompletePartialPrimaryKey(b.entityClass, b._where, TRUE,
                                               getOrderDirection(b))
            ELSE b._startPrimaryKey,
       !._endPrimaryKey =
            IF b._endPrimaryKey = <<>>
            THEN autoCompletePartialPrimaryKey(b.entityClass, b._where, FALSE,
                                               getOrderDirection(b))
            ELSE b._endPrimaryKey,
       !._where = <<>>]

\* the request executeGetRowQuery hands to the store client
GetRowRequest(b) ==
    [op |-> "getRow", tableName |-> queryMetadata(b.entityClass).tableName,
     primaryKey |-> convertPrimaryKeysToTablestore(b.entityClass, b._where)]

\* the request executeGetRangeQuery hands to the store client
GetRangeRequest(b) ==
    [op |-> "getRange", tableName |-> queryMetadata(b.entityClass).tableName,
     direction |-> getDirection(b),
     inclusiveStartPrimaryKey |->
        IF b._startPrimaryKey # <<>> THEN b._startPrimaryKey
        ELSE IF getDirection(b) = "BACKWARD" THEN buildMaxPrimaryKey(b.entityClass)
        ELSE buildMinPrimaryKey(b.entityClass),
     exclusiveEndPrimaryKey |->
        IF b._endPrimaryKey # <<>> THEN b._endPrimaryKey
        ELSE IF getDirection(b) = "BACKWARD" THEN buildMinPrimaryKey(b.entityClass)
        ELSE buildMaxPrimaryKey(b.entityClass),
     limit |-> IF b._limit # 0 THEN b._limit ELSE DefaultLimit]

\* the builder as executeQuery leaves it before the request is sent
executeQueryBuilder(b) ==
    IF isExactPrimaryKeyQuery(b) THEN b
    ELSE IF isPartialPrimaryKeyQuery(b) THEN convertPartialPrimaryKeyToRange(b)
    ELSE b

\* the request executeQuery hands to the store client
executeQueryRequest(b) ==
    IF isExactPrimaryKeyQuery(b) THEN GetRowRequest(b)
    ELSE GetRangeRequest(executeQueryBuilder(b))

\* a QueryResult
QueryResult(entities, next) ==
    [result |-> "returned", error |-> "none", entities |-> entities,
     nextStartPrimaryKey |-> next]

QueryThrew(e) ==
    [result |-> "threw", error |-> e, entities |-> <<>>, nextStartPrimaryKey |-> <<>>]

QueryPending ==
    [result |-> "pending", error |-> "none", entities |-> <<>>,
     nextStartPrimaryKey |-> <<>>]

\* the continuation of executeGetRowQuery on the store's answer
executeGetRowQueryResult(resp) ==
    IF resp.error = "none" THEN QueryResult(resp.rows, <<>>)
    ELSE IF isRowNotFoundError(resp.error) THEN QueryResult(<<>>, <<>>)
    ELSE QueryThrew(resp.error)

\* the continuation of executeGetRangeQuery on the store's answer
executeGetRangeQueryResult(resp) ==
    IF resp.error = "none" THEN QueryResult(resp.rows, resp.nextStartPrimaryKey)
    ELSE QueryThrew(resp.error)

(***************************************************************************)
(* Cursor codec (src/src/pagination.ts)                                    *)
(*                                                                         *)
(* Texts are sequences of code points, buffers sequences of bytes.  A      *)
(* base64 text is the sequence of the alphabet indices of its characters   *)
(* (0..63), Pad for "=" and NotBase64 for a character outside the          *)
(* alphabet.                                                               *)
(***************************************************************************)
Pad == 64
NotBase64 == 65

\* the characters of a property name
NameChars(name) ==
    CASE name = "category" -> <<99, 97, 116, 101, 103, 111, 114, 121>>
      [] name = "id" -> <<105, 100>>
      [] name = "name" -> <<110, 97, 109, 101>>
      [] name = "deletedAt" -> <<100, 101, 108, 101, 116, 101, 100, 65, 116>>
      [] name = "foo" -> <<102, 111, 111>>

PropertyNames == {"category", "id", "name", "deletedAt", "foo"}

\* the decimal digits of a natural number
RECURSIVE Digits(_)
Digits(n) == IF n < 10 THEN <<48 + n>> ELSE Digits(n \div 10) \o <<48 + (n % 10)>>

\* an escaping that leaves the backslash as it is
RECURSIVE EscapeQuoteOnly(_)
EscapeQuoteOnly(s) ==
    IF s = <<>> THEN <<>>
    ELSE (IF Head(s) = 34 THEN <<92, Head(s)>> ELSE <<Head(s)>>)
         \o EscapeQuoteOnly(Tail(s))

\* JSON.stringify of a string: quotes around it, " and \ escaped
RECURSIVE Escape(_)
Escape(s) ==
    IF s = <<>> THEN <<>>
    ELSE (IF Head(s) \in {34, 92} THEN <<92, Head(s)>> ELSE <<Head(s)>>)
         \o Escape(Tail(s))

Quote(s) == <<34>> \o Escape(s) \o <<34>>

\* JSON.stringify of a value that is not an object
StringifyValue(v) ==
    CASE v.t = "string" -> Quote(v.s)
      [] v.t = "number" -> IF v.n < 0 THEN <<45>> \o Digits(-v.n) ELSE Digits(v.n)
      [] v.t = "boolean" -> IF v.n = 1 THEN <<116, 114, 117, 101>>
                            ELSE <<102, 97, 108, 115, 101>>
      [] OTHER -> <<110, 117, 108, 108>>

\* the members of an object, without the braces; a property whose value is
\* undefined is left out
RECURSIVE StringifyMembers(_)
StringifyMembers(o) ==
    IF o = <<>> THEN <<>>
    ELSE IF Head(o).v.t = "undefined" THEN StringifyMembers(Tail(o))
    ELSE LET rest == StringifyMembers(Tail(o))
         IN Quote(NameChars(Head(o).k)) \o <<58>> \o StringifyValue(Head(o).v)
            \o (IF rest = <<>> THEN <<>> ELSE <<44>> \o rest)

\* JSON.stringify(primaryKeys)
JSONstringify(o) == <<123>> \o StringifyMembers(o) \o <<125>>

\* Buffer.from(text): the UTF-8 bytes of a text (code points below 2048)
RECURSIVE Utf8Encode(_)
Utf8Encode(text) ==
    IF text = <<>> THEN <<>>
    ELSE (IF Head(text) < 128 THEN <<Head(text)>>
          ELSE <<192 + (Head(text) \div 64), 128 + (Head(text) % 64)>>)
         \o Utf8Encode(Tail(text))

\* buffer.toString("utf-8"): a byte that starts no valid sequence becomes
\* U+FFFD
RECURSIVE Utf8Decode(_)
Utf8Decode(bytes) ==
    IF bytes = <<>> THEN <<>>
    ELSE IF Head(bytes) < 128 THEN <<Head(bytes)>> \o Utf8Decode(Tail(bytes))
    ELSE IF /\ Head(bytes) >= 194 /\ Head(bytes) < 224
            /\ Len(bytes) >= 2 /\ bytes[2] >= 128 /\ bytes[2] < 192
         THEN <<(Head(bytes) - 192) * 64 + (bytes[2] - 128)>>
              \o Utf8Decode(Tail(Tail(bytes)))
    ELSE <<65533>> \o Utf8Decode(Tail(bytes))

\* buffer.toString("base64"): three bytes give four characters, the last
\* group is padded with "="
RECURSIVE Base64Encode(_)
Base64Encode(bytes) ==
    IF bytes = <<>> THEN <<>>
    ELSE IF Len(bytes) = 1
         THEN <<bytes[1] \div 4, (bytes[1] % 4) * 16, Pad, Pad>>
    ELSE IF Len(bytes) = 2
         THEN <<bytes[1] \div 4, (bytes[1] % 4) * 16 + (bytes[2] \div 16),
                (bytes[2] % 16) * 4, Pad>>
    ELSE <<bytes[1] \div 4, (bytes[1] % 4) * 16 + (bytes[2] \div 16),
           (bytes[2] % 16) * 4 + (bytes[3] \div 64), bytes[3] % 64>>
         \o Base64Encode(SubSeq(bytes, 4, Len(bytes)))

\* the characters of a base64 text before its first "="
RECURSIVE BeforePad(_)
BeforePad(text) ==
    IF text = <<>> \/ Head(text) = Pad THEN <<>>
    ELSE <<Head(text)>> \o BeforePad(Tail(text))

\* the bytes of a sequence of alphabet indices
RECURSIVE Base64Bytes(_)
Base64Bytes(x) ==
    IF Len(x) < 2 THEN <<>>
    ELSE IF Len(x) = 2 THEN <<x[1] * 4 + (x[2] \div 16)>>
    ELSE IF Len(x) = 3
         THEN <<x[1] * 4 + (x[2] \div 16), (x[2] % 16) * 16 + (x[3] \div 4)>>
    ELSE <<x[1] * 4 + (x[2] \div 16), (x[2] % 16) * 16 + (x[3] \div 4),
           (x[3] % 4) * 64 + x[4]>>
         \o Base64Bytes(SubSeq(x, 5, Len(x)))

\* Buffer.from(cursor, "base64"): characters outside the alphabet are
\* skipped, decoding ends at the first "="; it never throws
Base64Decode(text) ==
    Base64Bytes(SelectSeq(BeforePad(text), LAMBDA c : c < Pad))

\* encodeCursor(primaryKeys)
encodeCursor(primaryKeys) == Base64Encode(Utf8Encode(JSONstringify(primaryKeys)))

\* the result of parsing a piece of a JSON text: whether it parsed, the
\* value, and the position after it
Parsed(v, next) == [ok |-> TRUE, v |-> v, next |-> next]
NotParsed == [ok |-> FALSE, v |-> JsUndefined, next |-> 0]

JsBoolean(b) == [t |-> "boolean", s |-> <<>>, n |-> IF b THEN 1 ELSE 0]

\* the text has the characters lit at position i
Literal(text, i, lit) ==
    i + Len(lit) - 1 <= Len(text) /\ SubSeq(text, i, i + Len(lit) - 1) = lit

\* a JSON string from the character after its opening quote; of the escapes,
\* \" \\ and \/ are read (the encoder writes no other)
RECURSIVE ParseString(_, _, _)
ParseString(text, i, acc) ==
    IF i > Len(text) \/ text[i] < 32 THEN NotParsed
    ELSE IF text[i] = 34 THEN Parsed(JsString(acc), i + 1)
    ELSE IF text[i] = 92
         THEN IF i + 1 <= Len(text) /\ text[i + 1] \in {34, 92, 47}
              THEN ParseString(text, i + 2, acc \o <<text[i + 1]>>)
              ELSE NotParsed
    ELSE ParseString(text, i + 1, acc \o <<text[i]>>)

\* the position after the digits that start at position i
RECURSIVE DigitsEnd(_, _)
DigitsEnd(text, i) ==
    IF i <= Len(text) /\ text[i] >= 48 /\ text[i] <= 57
    THEN DigitsEnd(text, i + 1) ELSE i

\* the number written by a non-empty sequence of digits
RECURSIVE NumberOf(_)
NumberOf(digits) ==
    IF Len(digits) = 1 THEN digits[1] - 48
    ELSE NumberOf(SubSeq(digits, 1, Len(digits) - 1)) * 10
         + (digits[Len(digits)] - 48)

\* a JSON integer: an optional minus sign, then 0 or digits that do not
\* start with 0
ParseNumber(text, i) ==
    LET from == IF text[i] = 45 THEN i + 1 ELSE i
        to == DigitsEnd(text, from)
    IN IF to = from \/ (text[from] = 48 /\ to > from + 1) THEN NotParsed
       ELSE Parsed(JsNumber((IF text[i] = 45 THEN -1 ELSE 1)
                            * NumberOf(SubSeq(text, from, to - 1))), to)

\* a JSON value that is not an object or an array
ParsePrimitive(text, i) ==
    IF i > Len(text) THEN NotParsed
    ELSE IF Literal(text, i, <<110, 117, 108, 108>>) THEN Parsed(JsNull, i + 4)
    ELSE IF Literal(text, i, <<116, 114, 117, 101>>) THEN Parsed(JsBoolean(TRUE), i + 4)
    ELSE IF Literal(text, i, <<102, 97, 108, 115, 101>>)
         THEN Parsed(JsBoolean(FALSE), i + 5)
    ELSE IF text[i] = 34 THEN ParseString(text, i + 1, <<>>)
    ELSE ParseNumber(text, i)

\* the property name with these characters; "other" for a name that no
\* column of the entities has
NameOfChars(chars) ==
    IF \E name \in PropertyNames : NameChars(name) = chars
    THEN CHOOSE name \in PropertyNames : NameChars(name) = chars
    ELSE "other"

\* o with the property k set to v (a repeated key keeps its first place)
SetProperty(o, k, v) ==
    IF k \in ObjectKeys(o)
    THEN [i \in 1..Len(o) |-> IF o[i].k = k THEN Property(k, v) ELSE o[i]]
    ELSE Append(o, Property(k, v))

\* the members of a JSON object from position i to its closing brace; the
\* values are strings, numbers, booleans or null
RECURSIVE ParseMembers(_, _, _)
ParseMembers(text, i, acc) ==
    IF i > Len(text) \/ text[i] # 34 THEN NotParsed
    ELSE LET key == ParseString(text, i + 1, <<>>)
         IN IF ~key.ok \/ key.next > Len(text) \/ text[key.next] # 58 THEN NotParsed
            ELSE LET value == ParsePrimitive(text, key.next + 1)
                     o == SetProperty(acc, NameOfChars(key.v.s), value.v)
                 IN IF ~value.ok \/ value.next > Len(text) THEN NotParsed
                    ELSE IF text[value.next] = 125
                         THEN [ok |-> TRUE, v |-> o, next |-> value.next + 1]
                    ELSE IF text[value.next] = 44
                         THEN ParseMembers(text, value.next + 1, o)
                    ELSE NotParsed

\* what decodeCursor gives: an error, or the parsed value (the properties of
\* an object in o, any other value in v)
Decoded(t, o, v) == [ok |-> TRUE, t |-> t, o |-> o, v |-> v]
DecodeFailed == [ok |-> FALSE, t |-> "undefined", o |-> <<>>, v |-> JsUndefined]

\* JSON.parse(text), for texts whose values are not nested
JSONparse(text) ==
    IF text = <<>> THEN DecodeFailed
    ELSE IF text[1] = 123
         THEN IF Len(text) >= 2 /\ text[2] = 125
              THEN IF Len(text) = 2 THEN Decoded("object", <<>>, JsUndefined)
                   ELSE DecodeFailed
              ELSE LET members == ParseMembers(text, 2, <<>>)
                   IN IF members.ok /\ members.next = Len(text) + 1
                      THEN Decoded("object", members.v, JsUndefined)
                      ELSE DecodeFailed
    ELSE LET value == ParsePrimitive(text, 1)
         IN IF value.ok /\ value.next = Len(text) + 1
            THEN Decoded(value.v.t, <<>>, value.v)
            ELSE DecodeFailed

\* decodeCursor(cursor): throws when JSON.parse throws
decodeCursor(cursor) == JSONparse(Utf8Decode(Base64Decode(cursor)))


(***************************************************************************)
(* Queries of one entity against one table                                 *)
(***************************************************************************)
\* the values a key column takes: "a" and "b"
ColumnValues == {JsString(<<97>>), JsString(<<98>>)}

\* the value findDeleted puts under the delete-date column: { $ne: null }
NotNull == [t |-> "object", s |-> <<>>, n |-> 0]

\* the delete-date values of a stored row: null, or the time of the deletion
DeleteDates == {JsNull, JsNumber(1)}

\* the primary keys a row of the entity's table can have
PrimaryKeys(cls) ==
    {<<Property(queryMetadata(cls).primaryColumns[1], v1),
       Property(queryMetadata(cls).primaryColumns[2], v2)>> :
        v1 \in ColumnValues, v2 \in ColumnValues}

\* the tables explored: at most MaxRows rows, no two with the same primary
\* key; only an entity with a delete-date column has deleted rows
TablesOf(cls) ==
    {S \in SUBSET {Row(k, d) : k \in PrimaryKeys(cls),
                               d \in IF queryMetadata(cls).deleteDateColumn = "none"
                                     THEN {JsNull} ELSE DeleteDates} :
        /\ Cardinality(S) <= MaxRows
        /\ \A r \in S, q \in S : r.primaryKey = q.primaryKey => r = q}

\* what a where condition holds for one key column: no such key, the key
\* with the value undefined, or the key with a value
Bindings(column) ==
    {<<>>, <<Property(column, JsUndefined)>>} \cup
    {<<Property(column, v)>> : v \in ColumnValues}

\* the where conditions explored: the key columns, and the non-key field
\* name with or without a value
Conditions(cls) ==
    {b1 \o b2 \o other :
        b1 \in Bindings(queryMetadata(cls).primaryColumns[1]),
        b2 \in Bindings(queryMetadata(cls).primaryColumns[2]),
        other \in {<<>>, <<Property("name", JsString(<<97>>))>>}}

NoResponse == [error |-> "none", rows |-> <<>>, nextStartPrimaryKey |-> <<>>]

\* a query: the method, and the where condition and the detected mode when
\* executeQuery was entered
Query(op, b) ==
    [op |-> op, where |-> b._where,
     exact |-> isExactPrimaryKeyQuery(b),
     partial |-> isPartialPrimaryKeyQuery(b)]

QueryInit ==
    /\ TransactionUnused
    /\ RestUnused
    /\ \E cls \in QueryEntities :
          /\ rows \in TablesOf(cls)
          /\ qb = QueryBuilder(cls)
    /\ qpc = "idle"
    /\ qcall = [op |-> "none", where |-> <<>>, exact |-> FALSE, partial |-> FALSE]
    /\ requests = <<>>
    /\ response = NoResponse
    /\ result = QueryPending
    /\ pagination = "none"
    /\ pageResult = "none"
    /\ CodecUnused

\* a query may be made: none is in progress.  Every query builds its own
\* QueryBuilder and the table does not change, so one query is followed
\* from each table.
MayQuery == qpc = "idle" /\ qcall.op = "none"

\* executeQuery up to the request it hands to the store client
executeQuery(op, b) ==
    /\ qcall' = Query(op, b)
    /\ qb' = executeQueryBuilder(b)
    /\ requests' = <<executeQueryRequest(b)>>
    /\ response' = NoResponse
    /\ result' = QueryPending
    /\ qpc' = executeQueryRequest(b).op

\* createQueryBuilder().where(w).orderBy(d).limit(n).getMany(), each of
\* orderBy and limit called or left out
getMany ==
    /\ MayQuery
    /\ \E w \in Conditions(qb.entityClass), d \in {"none", "ASC", "DESC"},
          n \in 0..MaxLimit :
          LET b0 == where(QueryBuilder(qb.entityClass), w)
              b1 == IF d = "none" THEN b0 ELSE orderBy(b0, d)
              b2 == IF n = 0 THEN b1 ELSE limit(b1, n)
          IN executeQuery("getMany", b2)
    /\ UNCHANGED <<txVars, restVars, rows, pageVars, codecVars>>

\* Repository.find(options) with options.where and options.take
find ==
    /\ MayQuery
    /\ \E w \in Conditions(qb.entityClass), take \in 0..MaxLimit :
          LET b0 == where(QueryBuilder(qb.entityClass), w)
              b1 == IF take # 0 THEN limit(b0, take) ELSE b0
          IN executeQuery("find", b1)
    /\ UNCHANGED <<txVars, restVars, rows, pageVars, codecVars>>

\* Repository.findDeleted(options) with options.where: an empty list when
\* the entity has no delete-date column, else find with the delete-date
\* column added to the where condition
findDeleted ==
    /\ MayQuery
    /\ \E w \in Conditions(qb.entityClass) :
          IF queryMetadata(qb.entityClass).deleteDateColumn = "none"
          THEN /\ qcall' = Query("findDeleted", where(QueryBuilder(qb.entityClass), w))
               /\ requests' = <<>>
               /\ response' = NoResponse
               /\ result' = QueryResult(<<>>, <<>>)
               /\ UNCHANGED <<qb, qpc>>
          ELSE executeQuery("findDeleted",
                   where(QueryBuilder(qb.entityClass),
                         w \o <<Property(queryMetadata(qb.entityClass).deleteDateColumn,
                                         NotNull)>>))
    /\ UNCHANGED <<txVars, restVars, rows, pageVars, codecVars>>

(***************************************************************************)
(* Repository.page (src/src/repository.ts): cursor pagination              *)
(*                                                                         *)
(* pagination is the state of a caller that calls page with the cursor of  *)
(* the page before until hasNext is false: the options of its calls, the   *)
(* cursor of its first call, the cursor of its next call, the items it has *)
(* received, the number of its calls and whether it has stopped.           *)
(***************************************************************************)
NoCursor == <<>>

\* PaginationUtils.createPrimaryKeysFromTablestore that keeps the first key
\* column only
createPrimaryKeysFirstColumn(tablestorePrimaryKey) ==
    SubSeq(tablestorePrimaryKey, 1, 1)

\* PaginationUtils.createPrimaryKeysFromTablestore: the name-to-value map of
\* a primary key, without the columns that hold INF_MIN or INF_MAX
createPrimaryKeysFromTablestore(tablestorePrimaryKey) ==
    SelectSeq(tablestorePrimaryKey, LAMBDA pk : pk.v.t \notin {"INF_MIN", "INF_MAX"})

\* startAfter when no cursor is given
NoStartAfter == Decoded("undefined", <<>>, JsUndefined)

\* if (startAfter)
Truthy(d) ==
    \/ d.t = "object"
    \/ d.t = "string" /\ d.v.s # <<>>
    \/ d.t = "number" /\ d.v.n # 0
    \/ d.t = "boolean" /\ d.v.n = 1

\* the where option of page: not given, or a condition
NoWhere == [given |-> FALSE, o |-> <<>>]
Where(o) == [given |-> TRUE, o |-> o]

\* a CursorPaginationResult, or the error page rejects with
PageResult(items, hasNext, nextCursor) ==
    [result |-> "returned", error |-> "none", items |-> items,
     hasNext |-> hasNext, nextCursor |-> nextCursor]

PageThrew(e) ==
    [result |-> "threw", error |-> e, items |-> <<>>, hasNext |-> FALSE,
     nextCursor |-> NoCursor]

PagePending ==
    [result |-> "pending", error |-> "none", items |-> <<>>, hasNext |-> FALSE,
     nextCursor |-> NoCursor]

\* the text of a JSON document that is cut off: {"category"
CutOffText == <<123>> \o Quote(NameChars("category"))

\* cursors that no page has returned: the encodings of null, of {}, of an
\* object without a key column, of a cut-off document and of a zero; a text
\* outside the base64 alphabet; and a cursor of a row with a character
\* outside the alphabet put in front of it
TamperedCursors ==
    {Base64Encode(Utf8Encode(<<110, 117, 108, 108>>)),
     Base64Encode(Utf8Encode(<<123, 125>>)),
     encodeCursor(<<Property("foo", JsString(<<97>>))>>),
     Base64Encode(Utf8Encode(CutOffText)),
     Base64Encode(Utf8Encode(<<48>>)),
     <<NotBase64, NotBase64>>,
     <<NotBase64>> \o encodeCursor(<<Property("category", JsString(<<97>>)),
                                     Property("id", JsString(<<98>>))>>)}

\* cursors that bind the first key column only
PrefixCursors ==
    {encodeCursor(<<Property("category", v)>>) : v \in ColumnValues}

\* the where options explored: none, nothing bound, the first key column
\* bound, and the whole key bound
PageConditions ==
    {NoWhere, Where(<<>>)} \cup
    {Where(<<Property("category", v)>>) : v \in ColumnValues} \cup
    {Where(<<Property("category", JsString(<<97>>)), Property("id", v)>>) :
        v \in ColumnValues}

PageInit ==
    /\ TransactionUnused
    /\ RestUnused
    /\ rows \in TablesOf("Product")
    /\ qb = QueryBuilder("Product")
    /\ qpc = "idle"
    /\ qcall = [op |-> "none", where |-> <<>>, exact |-> FALSE, partial |-> FALSE]
    /\ requests = <<>>
    /\ response = NoResponse
    /\ result = QueryPending
    /\ \E n \in 1..MaxLimit, order \in {"none", "ASC", "DESC"},
          w \in PageConditions,
          first \in {NoCursor} \cup TamperedCursors \cup PrefixCursors :
          pagination = [limit |-> n, order |-> order, where |-> w, first |-> first,
                        cursor |-> first, items |-> <<>>, calls |-> 0,
                        done |-> FALSE]
    /\ pageResult = PagePending
    /\ CodecUnused

\* Repository.page up to the request it hands to the store client
page ==
    /\ qpc = "idle"
    /\ ~pagination.done
    /\ LET options == pagination
           startAfter == IF options.cursor # NoCursor
                         THEN decodeCursor(options.cursor) ELSE NoStartAfter
           b0 == limit(QueryBuilder(qb.entityClass), options.limit)
           b1 == IF options.where.given THEN where(b0, options.where.o) ELSE b0
           b2 == IF Truthy(startAfter) THEN startWith(b1, startAfter.o) ELSE b1
           b3 == orderBy(b2, IF options.order = "DESC" THEN "DESC" ELSE "ASC")
       IN IF ~startAfter.ok
          THEN /\ qcall' = Query("page", b0)
               /\ requests' = <<>>
               /\ response' = NoResponse
               /\ result' = QueryPending
               /\ pageResult' = PageThrew("InvalidCursor")
               /\ pagination' = [pagination EXCEPT !.calls = @ + 1, !.done = TRUE]
               /\ UNCHANGED <<qb, qpc>>
          ELSE /\ executeQuery("page", b3)
               /\ pageResult' = PagePending
               /\ pagination' = [pagination EXCEPT !.calls = @ + 1]
    /\ UNCHANGED <<txVars, restVars, rows, codecVars>>

\* Repository.page after getRawAndEntities has settled with res
pageContinue(res) ==
    IF qcall.op # "page" THEN UNCHANGED <<pagination, pageResult>>
    ELSE IF res.result = "threw"
    THEN /\ pageResult' = PageThrew(res.error)
         /\ pagination' = [pagination EXCEPT !.done = TRUE]
    ELSE LET hasNext == res.nextStartPrimaryKey # <<>>
             nextCursor ==
                 IF hasNext
                 THEN encodeCursor(createPrimaryKeysFromTablestore(
                                       res.nextStartPrimaryKey))
                 ELSE NoCursor
         IN /\ pageResult' = PageResult(res.entities, hasNext, nextCursor)
            /\ pagination' = [pagination EXCEPT !.items = @ \o res.entities,
                                                !.cursor = nextCursor,
                                                !.done = ~hasNext]

(***************************************************************************)
(* A key map encoded to a cursor and decoded again                         *)
(***************************************************************************)
\* the characters of the string values: a, ", \ and e with an acute accent
CodecChars == {97, 34, 92, 233}

\* the strings of at most n characters
RECURSIVE Strings(_)
Strings(n) ==
    IF n = 0 THEN {<<>>}
    ELSE Strings(n - 1) \cup
         {<<c>> \o s : c \in CodecChars, s \in {x \in Strings(n - 1) : Len(x) = n - 1}}

\* the string and integer values of a key map
CodecValues ==
    {JsString(s) : s \in Strings(MaxLen)} \cup {JsNumber(n) : n \in {-12, 0, 7}}

\* the key maps explored: no, one or both key columns, in either order
KeyMaps ==
    {<<>>} \cup
    {<<Property(k, v)>> : k \in {"category", "id"}, v \in CodecValues} \cup
    {<<Property("category", v1), Property("id", v2)>> :
        v1 \in CodecValues, v2 \in CodecValues} \cup
    {<<Property("id", v1), Property("category", v2)>> :
        v1 \in CodecValues, v2 \in CodecValues}

CodecInit ==
    /\ TransactionUnused
    /\ RestUnused
    /\ rows = {}
    /\ qb = "none"
    /\ qpc = "none"
    /\ qcall = "none"
    /\ requests = <<>>
    /\ response = "none"
    /\ result = "none"
    /\ pagination = "none"
    /\ pageResult = "none"
    /\ keyMap \in KeyMaps
    /\ encoded = NoCursor
    /\ decoded = NoStartAfter

\* PaginationUtils.encodeCursor(keyMap)
encodeCursorCall ==
    /\ encoded = NoCursor
    /\ encoded' = encodeCursor(keyMap)
    /\ UNCHANGED <<txVars, restVars, queryVars, pageVars, keyMap, decoded>>

\* PaginationUtils.decodeCursor(cursor) on the cursor encodeCursor returned
decodeCursorCall ==
    /\ encoded # NoCursor
    /\ decoded = NoStartAfter
    /\ decoded' = decodeCursor(encoded)
    /\ UNCHANGED <<txVars, restVars, queryVars, pageVars, keyMap, encoded>>

CodecNext == encodeCursorCall \/ decodeCursorCall

CodecSpec == CodecInit /\ [][CodecNext]_vars

\* the store answers getRow, or fails
executeGetRowQueryReply ==
    /\ qpc = "getRow"
    /\ \E resp \in {StoreGetRow(rows, qb.entityClass, requests[1])} \cup
                   {StoreFailure(e) : e \in StoreErrors} :
          /\ response' = resp
          /\ result' = executeGetRowQueryResult(resp)
          /\ pageContinue(executeGetRowQueryResult(resp))
    /\ qpc' = "idle"
    /\ UNCHANGED <<txVars, restVars, rows, qb, qcall, requests, codecVars>>

\* the store answers getRange, or fails
executeGetRangeQueryReply ==
    /\ qpc = "getRange"
    /\ \E resp \in {StoreGetRange(rows, qb.entityClass, requests[1])} \cup
                   {StoreFailure(e) : e \in StoreErrors} :
          /\ response' = resp
          /\ result' = executeGetRangeQueryResult(resp)
          /\ pageContinue(executeGetRangeQueryResult(resp))
    /\ qpc' = "idle"
    /\ UNCHANGED <<txVars, restVars, rows, qb, qcall, requests, codecVars>>

QueryNext ==
    \/ getMany \/ find \/ findDeleted
    \/ executeGetRowQueryReply \/ executeGetRangeQueryReply

QuerySpec == QueryInit /\ [][QueryNext]_vars

PageNext == page \/ executeGetRowQueryReply \/ executeGetRangeQueryReply

PageSpec == PageInit /\ [][PageNext]_vars


(***************************************************************************)
(* One QueryBuilder used for two queries, as in the README: the second     *)
(* query is chained on the instance the first query has run on             *)
(***************************************************************************)
\* where a chain calls where() or leaves it out
Chained == {NoWhere} \cup {Where(w) : w \in Conditions("Product")}

ReuseInit ==
    /\ QueryInit
    /\ qb.entityClass = "Product"
    /\ Cardinality(rows) <= 1

\* queryBuilder.where(w).getOne() on a new builder: getOne sets the limit
\* to 1 and runs the query
getOne ==
    /\ MayQuery
    /\ \E w \in Conditions(qb.entityClass) :
          executeQuery("getOne", limit(where(QueryBuilder(qb.entityClass), w), 1))
    /\ UNCHANGED <<txVars, restVars, rows, pageVars, codecVars>>

\* after the first query has returned, a second query on the same instance:
\* where() called or left out, then getMany().  The where recorded for the
\* call is the one chained for it.
getManyAgain ==
    /\ qpc = "idle"
    /\ qcall.op = "getOne"
    /\ result.result = "returned"
    /\ \E c \in Chained :
          LET b == IF c.given THEN where(qb, c.o) ELSE qb
          IN /\ qcall' = [Query("getManyAgain", b) EXCEPT !.where = c.o]
             /\ qb' = executeQueryBuilder(b)
             /\ requests' = <<executeQueryRequest(b)>>
             /\ qpc' = executeQueryRequest(b).op
    /\ response' = NoResponse
    /\ result' = QueryPending
    /\ UNCHANGED <<txVars, restVars, rows, pageVars, codecVars>>

ReuseNext ==
    \/ getOne \/ getManyAgain
    \/ executeGetRowQueryReply \/ executeGetRangeQueryReply

ReuseSpec == ReuseInit /\ [][ReuseNext]_vars

(***************************************************************************)
(* EntityManager.findOne (src/src/entity-manager.ts)                       *)
(*                                                                         *)
(* The result of findOne is a query result with the entity found, or with  *)
(* no entity for null.                                                     *)
(***************************************************************************)
\* EntityManager.isCompletePrimaryKey
isCompletePrimaryKey(cls, primaryKeys) ==
    \A i \in 1..Len(queryMetadata(cls).primaryColumns) :
        HasValue(Get(primaryKeys, queryMetadata(cls).primaryColumns[i]))

\* EntityManager.autoCompletePartialPrimaryKey
entityManagerAutoComplete(cls, partialKeys, isStart) ==
    [i \in 1..Len(queryMetadata(cls).primaryColumns) |->
        LET column == queryMetadata(cls).primaryColumns[i]
            value == Get(partialKeys, column)
        IN IF HasValue(value) THEN Property(column, value)
           ELSE IF isStart THEN Property(column, INF_MIN)
           ELSE Property(column, INF_MAX)]

\* the request EntityManager.findOne hands to the store client
findOneRequest(cls, primaryKeys) ==
    IF isCompletePrimaryKey(cls, primaryKeys)
    THEN [op |-> "getRow", tableName |-> queryMetadata(cls).tableName,
          primaryKey |-> convertPrimaryKeysToTablestore(cls, primaryKeys)]
    ELSE [op |-> "getRange", tableName |-> queryMetadata(cls).tableName,
          direction |-> "FORWARD",
          inclusiveStartPrimaryKey |->
              entityManagerAutoComplete(cls, primaryKeys, TRUE),
          exclusiveEndPrimaryKey |->
              entityManagerAutoComplete(cls, primaryKeys, FALSE),
          limit |-> 1]

\* a continuation of findOne that raises an error when no row came back
findOneResultThrowsOnNoRow(resp) ==
    IF resp.error # "none" THEN QueryThrew(resp.error)
    ELSE IF Len(resp.rows) = 0 THEN QueryThrew("EntityNotFound")
    ELSE QueryResult(<<resp.rows[1]>>, <<>>)

\* the continuation of findOne on the store's answer, the same on both paths
findOneResult(resp) ==
    IF resp.error # "none"
    THEN IF isRowNotFoundError(resp.error) THEN QueryResult(<<>>, <<>>)
         ELSE QueryThrew(resp.error)
    ELSE IF Len(resp.rows) = 0 THEN QueryResult(<<>>, <<>>)
    ELSE QueryResult(<<resp.rows[1]>>, <<>>)

\* entityManager.findOne(entityClass, primaryKeys)
entityManagerFindOne ==
    /\ MayQuery
    /\ \E primaryKeys \in Conditions(qb.entityClass) :
          /\ qcall' = [op |-> "entityManagerFindOne", where |-> primaryKeys,
                       exact |-> isCompletePrimaryKey(qb.entityClass, primaryKeys),
                       partial |-> ~isCompletePrimaryKey(qb.entityClass, primaryKeys)]
          /\ requests' = <<findOneRequest(qb.entityClass, primaryKeys)>>
          /\ qpc' = IF isCompletePrimaryKey(qb.entityClass, primaryKeys)
                    THEN "findOneGetRow" ELSE "findOneGetRange"
    /\ response' = NoResponse
    /\ result' = QueryPending
    /\ UNCHANGED <<txVars, restVars, rows, qb, pageVars, codecVars>>

\* the store answers the getRow of findOne, or fails
findOneGetRowReply ==
    /\ qpc = "findOneGetRow"
    /\ \E resp \in {StoreGetRow(rows, qb.entityClass, requests[1])} \cup
                   {StoreFailure(e) : e \in StoreErrors} :
          /\ response' = resp
          /\ result' = findOneResult(resp)
    /\ qpc' = "idle"
    /\ UNCHANGED <<txVars, restVars, rows, qb, qcall, requests, pageVars, codecVars>>

\* the store answers the getRange of findOne, or fails
findOneGetRangeReply ==
    /\ qpc = "findOneGetRange"
    /\ \E resp \in {StoreGetRange(rows, qb.entityClass, requests[1])} \cup
                   {StoreFailure(e) : e \in StoreErrors} :
          /\ response' = resp
          /\ result' = findOneResult(resp)
    /\ qpc' = "idle"
    /\ UNCHANGED <<txVars, restVars, rows, qb, qcall, requests, pageVars, codecVars>>

(***************************************************************************)
(* The lookups: the query builder, EntityManager.findOne and               *)
(* Transaction.findOne, each against its own table                         *)
(***************************************************************************)
LookupInit == Init \/ QueryInit

LookupNext ==
    \/ findOne \/ getRowReply
    \/ getMany \/ executeGetRowQueryReply \/ executeGetRangeQueryReply
    \/ entityManagerFindOne \/ findOneGetRowReply \/ findOneGetRangeReply

LookupSpec == LookupInit /\ [][LookupNext]_vars

(***************************************************************************)
(* EntityManager.update (src/src/entity-manager.ts) on an entity with a    *)
(* version column: two callers update the same row, which exists           *)
(***************************************************************************)
Updaters == {1, 2}

\* an update() call: its position, the version it computed, whether its
\* version read failed, whether another call was in progress when it
\* started, and how it settled
NotCalled ==
    [pc |-> "idle", newVersion |-> 0, readFailed |-> FALSE,
     overlapped |-> FALSE, outcome |-> Pending]

InProgress(u) == u.pc \notin {"idle", "done"}

\* EntityManager.getNextVersion of the version of the row that was read
getNextVersion(currentVersion) == currentVersion + 1

UpdateInit ==
    /\ TransactionUnused
    /\ rows = {}
    /\ qb = "none"
    /\ qpc = "none"
    /\ qcall = "none"
    /\ requests = <<>>
    /\ response = "none"
    /\ result = "none"
    /\ pagination = "none"
    /\ pageResult = "none"
    /\ CodecUnused
    /\ FilterUnused
    /\ OverlapUnused
    /\ initial \in InitialVersion..MaxVersion
    /\ stored = initial
    /\ updates = [p \in Updaters |-> NotCalled]

UpdateFrame ==
    UNCHANGED <<txVars, queryVars, pageVars, codecVars, filterVars, overlapVars,
                initial>>

\* update() is called: processSpecialColumnsOnUpdate hands the findOne of
\* incrementVersionColumn to the store
entityManagerUpdate ==
    /\ \E p \in Updaters :
          /\ updates[p].pc = "idle"
          /\ updates' = [updates EXCEPT
                ![p] = [@ EXCEPT !.pc = "versionRead",
                                 !.overlapped = \E q \in Updaters \ {p} :
                                                    InProgress(updates[q])],
                ![3 - p] = [@ EXCEPT !.overlapped =
                                        @ \/ InProgress(updates[3 - p])]]
    /\ stored' = stored
    /\ UpdateFrame

\* incrementVersionColumn resumes with the row read, or with an error, which
\* its catch turns into the default version; update then sends updateRow
incrementVersionColumn ==
    /\ \E p \in Updaters, ok \in BOOLEAN :
          /\ updates[p].pc = "versionRead"
          /\ updates' = [updates EXCEPT ![p] =
                [@ EXCEPT !.pc = "updateRow",
                          !.readFailed = ~ok,
                          !.newVersion = IF ok THEN getNextVersion(stored)
                                         ELSE InitialVersion]]
    /\ stored' = stored
    /\ UpdateFrame

\* the store applies updateRow, whose only condition is EXPECT_EXIST, or
\* fails; after it update sends the findOne that reads the row again
updateRowSettles ==
    /\ \E p \in Updaters, ok \in BOOLEAN :
          /\ updates[p].pc = "updateRow"
          /\ IF ok
             THEN /\ stored' = updates[p].newVersion
                  /\ updates' = [updates EXCEPT ![p] = [@ EXCEPT !.pc = "findOne"]]
             ELSE /\ stored' = stored
                  /\ updates' = [updates EXCEPT ![p] =
                        [@ EXCEPT !.pc = "done", !.outcome = Threw("StoreError")]]
    /\ UpdateFrame

\* the findOne after updateRow answers with the row, or fails
updateFindOneSettles ==
    /\ \E p \in Updaters, ok \in BOOLEAN :
          /\ updates[p].pc = "findOne"
          /\ updates' = [updates EXCEPT ![p] =
                [@ EXCEPT !.pc = "done",
                          !.outcome = IF ok THEN Returned("entity")
                                      ELSE Threw("StoreError")]]
    /\ stored' = stored
    /\ UpdateFrame

UpdateNext ==
    \/ entityManagerUpdate \/ incrementVersionColumn
    \/ updateRowSettles \/ updateFindOneSettles

UpdateSpec == UpdateInit /\ [][UpdateNext]_vars

(***************************************************************************)
(* Overlapping calls on one Transaction: each of two callers calls commit  *)
(* or rollback once and is suspended at its store request while the other  *)
(* caller, isActive and the clock run                                      *)
(***************************************************************************)
Callers == {1, 2}

NotEntered == [op |-> "none", pc |-> "idle", outcome |-> Pending]

\* the store decides a transaction by the first commitTransaction or
\* abortTransaction it receives; a request can fail whatever the store did
StoreAccepts(op) == received # <<>> /\ Head(received) = op

OverlapInit ==
    /\ rows = {}
    /\ qb = "none"
    /\ qpc = "none"
    /\ qcall = "none"
    /\ requests = <<>>
    /\ response = "none"
    /\ result = "none"
    /\ pagination = "none"
    /\ pageResult = "none"
    /\ CodecUnused
    /\ FilterUnused
    /\ UpdateUnused
    /\ status = ACTIVE
    /\ now = 0
    /\ startTime = now
    /\ optTimeout \in TimeoutOptions
    /\ timeout = ResolveTimeout(optTimeout)
    /\ \E cls \in EntityClasses, v \in StartValues :
          /\ tableName = getEntityMetadata(cls).tableName
          /\ partitionKey = [name |-> getEntityMetadata(cls).firstPrimaryColumn,
                             value |-> v]
    /\ pc = "idle"
    /\ call = [op |-> "startTransaction", cls |-> "none", pk |-> Undef,
               batch |-> <<>>, by |-> "user",
               statusBefore |-> ACTIVE, expiredBefore |-> FALSE]
    /\ sent = <<Request("startLocalTransaction", tableName,
                        <<partitionKey.value>>, NoTx)>>
    /\ outcome = Returned("transaction")
    /\ reply = "ok"
    /\ commitCalls = 0
    /\ rit = "off"
    /\ cb = Pending
    /\ ritOutcome = Pending
    /\ inflight = [c \in Callers |-> NotEntered]
    /\ received = <<>>

OverlapFrame ==
    UNCHANGED <<txFields, now, pc, call, sent, outcome, reply, commitCalls,
                rit, cb, ritOutcome, queryVars, pageVars, codecVars,
                filterVars, updateVars>>

\* a caller calls commit(): ensureActive, then commitTransaction is handed
\* to the store client and the call is suspended
commitOverlapping ==
    /\ \E c \in Callers :
          /\ inflight[c].pc = "idle"
          /\ IF ~isActiveValue
             THEN /\ status' = isActiveStatus
                  /\ received' = received
                  /\ inflight' = [inflight EXCEPT ![c] =
                        [op |-> "commit", pc |-> "done",
                         outcome |-> Threw("TransactionStateError")]]
             ELSE /\ status' = status
                  /\ received' = Append(received, "commitTransaction")
                  /\ inflight' = [inflight EXCEPT ![c] =
                        [op |-> "commit", pc |-> "commitTransaction",
                         outcome |-> Pending]]
    /\ OverlapFrame

\* commit() resumes: the status is set from the store's answer
commitResumes ==
    /\ \E c \in Callers, ok \in BOOLEAN :
          /\ inflight[c].pc = "commitTransaction"
          /\ ok => StoreAccepts("commitTransaction")
          /\ status' = CommitStatus(ok)
          /\ inflight' = [inflight EXCEPT ![c] =
                [@ EXCEPT !.pc = "done",
                          !.outcome = IF ok THEN Returned("void")
                                      ELSE Threw("CommitRejected")]]
    /\ received' = received
    /\ OverlapFrame

\* a caller calls rollback(): it returns at once when the status is not
\* ACTIVE, else abortTransaction is handed to the store client
rollbackOverlapping ==
    /\ \E c \in Callers :
          /\ inflight[c].pc = "idle"
          /\ IF RollbackSkips(status)
             THEN /\ received' = received
                  /\ inflight' = [inflight EXCEPT ![c] =
                        [op |-> "rollback", pc |-> "done",
                         outcome |-> Returned("void")]]
             ELSE /\ received' = Append(received, "abortTransaction")
                  /\ inflight' = [inflight EXCEPT ![c] =
                        [op |-> "rollback", pc |-> "abortTransaction",
                         outcome |-> Pending]]
    /\ status' = status
    /\ OverlapFrame

\* rollback() resumes: finally { status = ABORTED }
rollbackResumes ==
    /\ \E c \in Callers, ok \in BOOLEAN :
          /\ inflight[c].pc = "abortTransaction"
          /\ ok => StoreAccepts("abortTransaction")
          /\ status' = RollbackStatus(ok)
          /\ inflight' = [inflight EXCEPT ![c] =
                [@ EXCEPT !.pc = "done",
                          !.outcome = IF ok THEN Returned("void")
                                      ELSE Threw("AbortRejected")]]
    /\ received' = received
    /\ OverlapFrame

OverlapNext ==
    \/ commitOverlapping \/ commitResumes
    \/ rollbackOverlapping \/ rollbackResumes
    \/ isActive \/ Tick

OverlapSpec == OverlapInit /\ [][OverlapNext]_vars

(***************************************************************************)
(* FilterFactory                                                           *)
(***************************************************************************)
\* metadata.columns of the entity the factory is made for: the Product of
\* the filter test, by propertyName
filterColumns ==
    <<"category", "id", "name", "price", "stock", "createdAt", "updatedAt">>

\* a lookup that finds a column whatever the field is
findColumnMetadataFirst(fieldName) ==
    [found |-> TRUE, propertyName |-> filterColumns[1]]

\* FilterFactory.findColumnMetadata: the first column whose propertyName is
\* the field, or undefined
findColumnMetadata(fieldName) ==
    IF \E i \in 1..Len(filterColumns) : filterColumns[i] = fieldName
    THEN [found |-> TRUE, propertyName |-> fieldName]
    ELSE [found |-> FALSE, propertyName |-> ""]

\* Tablestore.Long.fromNumber(n) and a Date of n milliseconds
Long(n) == [t |-> "long", s |-> <<>>, n |-> n]
JsDate(n) == [t |-> "date", s |-> <<>>, n |-> n]

\* FilterFactory.convertValueToTablestore: an integer becomes a Long, a Date
\* its time, anything else stays
filterValueToTablestore(value) ==
    IF value.t = "number" THEN Long(value.n)
    ELSE IF value.t = "date" THEN JsNumber(value.n)
    ELSE value

\* a ?? b
NullishOr(a, b) == IF HasValue(a) THEN a ELSE b

SingleColumnCondition(columnName, columnValue, comparator, passIfMissing,
                      latestVersionOnly) ==
    [type |-> "single", columnName |-> columnName, columnValue |-> columnValue,
     comparator |-> comparator, passIfMissing |-> passIfMissing,
     latestVersionOnly |-> latestVersionOnly]

\* new Tablestore.CompositeCondition(combinator) and addSubCondition
CompositeCondition(combinator) ==
    [type |-> "composite", combinator |-> combinator, sub_conditions |-> <<>>]

addSubCondition(composite, condition) ==
    [composite EXCEPT !.sub_conditions = Append(@, condition)]

\* conditions.forEach(cond => composite.addSubCondition(cond))
RECURSIVE forEachAddSubCondition(_, _)
forEachAddSubCondition(composite, conditions) ==
    IF conditions = <<>> THEN composite
    ELSE forEachAddSubCondition(addSubCondition(composite, Head(conditions)),
                                Tail(conditions))

FilterBuilt(condition) ==
    [result |-> "built", condition |-> condition, error |-> "none"]
FilterThrew(error) ==
    [result |-> "threw", condition |-> CompositeCondition("none"), error |-> error]
FilterPending ==
    [result |-> "none", condition |-> CompositeCondition("none"), error |-> "none"]

\* FilterFactory.createSingleCondition
createSingleCondition(field, value, comparator, options) ==
    LET columnMetadata == findColumnMetadata(field)
        columnValue == filterValueToTablestore(value)
    IN  IF ~columnMetadata.found THEN FilterThrew("FieldNotInEntity")
        ELSE IF ~HasValue(columnValue) THEN FilterThrew("ValueNullOrUndefined")
        ELSE FilterBuilt(SingleColumnCondition(field, columnValue, comparator,
                 NullishOr(Get(options, "passIfMissing"), JsBoolean(TRUE)),
                 NullishOr(Get(options, "latestVersionOnly"), JsBoolean(TRUE))))

\* the composite of and() / or()
compositeOf(combinator, emptyError, conditions) ==
    IF Len(conditions) = 0 THEN FilterThrew(emptyError)
    ELSE FilterBuilt(forEachAddSubCondition(CompositeCondition(combinator),
                                            conditions))

\* the fields, values and options the comparators are called with
FilterFields == {"name", "price", "category", "nonExistentField", "deletedAt"}
FilterValues == {JsString(<<97>>), JsNumber(7), JsDate(1), JsNull, JsUndefined}
FilterOptions == {<<>>, <<Property("passIfMissing", JsBoolean(FALSE))>>}

\* conditions built before and handed to and(), or() and not()
Leaves ==
    {createSingleCondition(f, v, c, <<>>).condition :
        f \in {"name", "price"}, v \in {JsString(<<97>>), JsNumber(7)},
        c \in {"EQUAL", "GREATER_THAN"}}
Names == {l \in Leaves : l.columnName = "name"}
BuiltConditions ==
    Leaves
    \cup {addSubCondition(CompositeCondition("NOT"), l) : l \in Names}
    \cup {forEachAddSubCondition(CompositeCondition("AND"), <<l, l>>) : l \in Names}
    \cup {forEachAddSubCondition(CompositeCondition("OR"), <<l>>) : l \in Names}

ConditionLists ==
    UNION {[1..n -> BuiltConditions] : n \in 0..MaxConditions}

NoFilterCall ==
    [method |-> "none", field |-> "", value |-> JsUndefined, options |-> <<>>,
     conditions |-> <<>>, outcome |-> FilterPending]

FilterInit ==
    /\ TransactionUnused
    /\ rows = {}
    /\ qb = "none"
    /\ qpc = "none"
    /\ qcall = "none"
    /\ requests = <<>>
    /\ response = "none"
    /\ result = "none"
    /\ pagination = "none"
    /\ pageResult = "none"
    /\ CodecUnused
    /\ UpdateUnused
    /\ OverlapUnused
    /\ filter = NoFilterCall

\* a comparator method called with a field, a value and options
compare(method, comparator) ==
    /\ filter.method = "none"
    /\ \E field \in FilterFields, value \in FilterValues, options \in FilterOptions :
          filter' = [method |-> method, field |-> field, value |-> value,
                     options |-> options, conditions |-> <<>>,
                     outcome |-> createSingleCondition(field, value, comparator,
                                                       options)]
    /\ UNCHANGED <<txVars, queryVars, pageVars, codecVars, updateVars, overlapVars>>

equals == compare("equals", "EQUAL")
notEqual == compare("notEqual", "NOT_EQUAL")
greaterThan == compare("greaterThan", "GREATER_THAN")
greaterThanOrEqual == compare("greaterThanOrEqual", "GREATER_EQUAL")
lessThan == compare("lessThan", "LESS_THAN")
lessThanOrEqual == compare("lessThanOrEqual", "LESS_EQUAL")

\* and(...conditions) / or(...conditions)
combine(method, combinator, emptyError) ==
    /\ filter.method = "none"
    /\ \E conditions \in ConditionLists :
          filter' = [method |-> method, field |-> "", value |-> JsUndefined,
                     options |-> <<>>, conditions |-> conditions,
                     outcome |-> compositeOf(combinator, emptyError, conditions)]
    /\ UNCHANGED <<txVars, queryVars, pageVars, codecVars, updateVars, overlapVars>>

and == combine("and", "AND", "AndNeedsCondition")
or == combine("or", "OR", "OrNeedsCondition")

\* not(condition)
not ==
    /\ filter.method = "none"
    /\ \E condition \in BuiltConditions :
          filter' = [method |-> "not", field |-> "", value |-> JsUndefined,
                     options |-> <<>>, conditions |-> <<condition>>,
                     outcome |-> FilterBuilt(addSubCondition(
                                     CompositeCondition("NOT"), condition))]
    /\ UNCHANGED <<txVars, queryVars, pageVars, codecVars, updateVars, overlapVars>>

FilterNext ==
    \/ equals \/ notEqual \/ greaterThan \/ greaterThanOrEqual
    \/ lessThan \/ lessThanOrEqual
    \/ and \/ or \/ not

FilterSpec == FilterInit /\ [][FilterNext]_vars

(***************************************************************************)
(* Properties                                                              *)
(***************************************************************************)
Terminal == {COMMITTED, ABORTED, TIMEOUT}
Operations == {"save", "update", "delete", "findOne", "batchWrite"}
Writes == {"save", "update", "delete"}

\* isActive() held when the call was entered
EnteredActive == call.statusBefore = ACTIVE /\ ~call.expiredBefore

\* C1: over non-overlapping calls the status only moves from ACTIVE to
\* COMMITTED, ABORTED or TIMEOUT; a terminal status never changes again.
C1_StatusOnlyLeavesActive ==
    [][status' # status => status = ACTIVE /\ status' \in Terminal]_vars

\* a commit or a rollback has run on a transaction that was already
\* in a terminal status
C1_Witness ==
    /\ status \in Terminal
    /\ call.statusBefore = status
    /\ call.op \in {"commit", "rollback"}
    /\ pc = "idle"

\* C2: on a transaction whose status is not ACTIVE, save, update, delete,
\* findOne, batchWrite and commit throw, send no request to the store client
\* and leave the status as it was.
C2_InactiveRejects ==
    (call.op \in Operations \cup {"commit"} /\ call.statusBefore # ACTIVE)
    => /\ outcome = Threw("TransactionStateError")
       /\ sent = <<>>
       /\ status = call.statusBefore

\* a write was attempted on a committed transaction
C2_Witness ==
    /\ call.op = "update"
    /\ call.statusBefore = COMMITTED
    /\ validatePartitionKey(call.cls, call.pk)
    /\ outcome.result = "threw"

\* C3 (as claimed): once the timeout has elapsed on a transaction whose status
\* is still ACTIVE, the next status check (isActive, getStatus) or operation
\* attempt (save, update, delete, findOne, batchWrite, commit, rollback) leaves
\* the status at TIMEOUT.
C3_LazyTimeoutOnEveryCall ==
    (/\ call.op \in Operations \cup {"commit", "rollback", "isActive", "getStatus"}
     /\ call.statusBefore = ACTIVE
     /\ call.expiredBefore
     /\ pc = "idle")
    => status = TIMEOUT

C5_FindOneValidatesPartition ==
    (/\ call.op = "findOne"
     /\ EnteredActive
     /\ call.pk # Undef
     /\ call.pk # partitionKey.value)
    => /\ outcome = Threw("PartitionMismatchError")
       /\ sent = <<>>

\* C6 (as claimed): batchWrite never sends a multi-partition batch: when an
\* operation of the batch has a partition-key value other than the
\* transaction's, batchWrite throws before batchWriteRow is handed to the
\* store client.
C6_BatchStaysInPartition ==
    (/\ call.op = "batchWrite"
     /\ \E i \in 1..Len(call.batch) : call.batch[i].pk # partitionKey.value)
    => /\ \A i \in 1..Len(sent) : sent[i].op # "batchWriteRow"
       /\ outcome.result = "threw"

\* C7: commit on an active transaction hands exactly one commitTransaction
\* request to the store client; when the store accepts it the status becomes
\* COMMITTED, when the store rejects it the status becomes ABORTED and the
\* store's error is thrown on to the caller; a second commit always throws
\* without a request.
C7_CommitOnce ==
    /\ (call.op = "commit" /\ EnteredActive)
       => /\ sent = <<CommitRequest>>
          /\ pc # "idle" => status = ACTIVE /\ outcome = Pending
          /\ (pc = "idle" /\ reply = "ok")
             => status = COMMITTED /\ outcome = Returned("void")
          /\ (pc = "idle" /\ reply # "ok")
             => status = ABORTED /\ outcome = Threw("CommitRejected")
    /\ (call.op = "commit" /\ commitCalls >= 2)
       => /\ sent = <<>>
          /\ outcome = Threw("TransactionStateError")

\* a second commit was attempted after the store rejected the first one
C7_Witness ==
    /\ call.op = "commit"
    /\ commitCalls = 2
    /\ status = ABORTED
    /\ outcome = Threw("TransactionStateError")

\* C8: rollback on a transaction whose status is ACTIVE hands abortTransaction
\* to the store client and leaves the status ABORTED whether the store call
\* succeeds or fails; rollback on a COMMITTED, ABORTED or TIMEOUT transaction
\* sends nothing, changes nothing and throws nothing.
C8_Rollback ==
    /\ (call.op = "rollback" /\ call.statusBefore = ACTIVE)
       => /\ sent = <<AbortRequest>>
          /\ pc = "idle" => status = ABORTED
    /\ (call.op = "rollback" /\ call.statusBefore # ACTIVE)
       => /\ sent = <<>>
          /\ status = call.statusBefore
          /\ outcome = Returned("void")
          /\ pc = "idle"

\* the store rejected abortTransaction and the status is ABORTED all the same
C8_Witness ==
    /\ call.op = "rollback"
    /\ call.statusBefore = ACTIVE
    /\ pc = "idle"
    /\ reply = "error"
    /\ status = ABORTED

\* C9 (as claimed): when the callback resolves, runInTransaction commits and,
\* if it returns, returns the callback's result (and it returns whenever the
\* commit succeeded); when the callback rejects, runInTransaction leaves the
\* transaction ABORTED and rejects with the error the callback threw.
C9_RunInTransaction ==
    rit = "done"
    => IF cb.result = "returned"
       THEN /\ call.op = "commit" /\ call.by = "runInTransaction"
            /\ ritOutcome.result = "returned" => ritOutcome.value = cb.value
            /\ status = COMMITTED => ritOutcome = Returned(cb.value)
       ELSE /\ status = ABORTED
            /\ ritOutcome = Threw(cb.error)

\* C10 (as claimed): whatever timeout option the transaction was started
\* with, isActive() does not return true once more than 60000 ms have elapsed
\* since the transaction was created.
C10_LifetimeAtMostSixtySeconds ==
    [][(/\ call'.op = "isActive"
        /\ outcome'.value = "true"
        /\ now' = now)
       => now - startTime <= MaxLifetime]_vars

\* a key column is bound to a value by a where condition
Bound(condition, column) == HasValue(Get(condition, column))

AllBound(cls, condition) ==
    \A column \in primaryKeyNames(cls) : Bound(condition, column)

SomeBound(cls, condition) ==
    \E column \in primaryKeyNames(cls) : Bound(condition, column)

\* C11 (as claimed): for every where predicate the mode checks of
\* QueryBuilder are mutually exclusive; exact-key detection is true exactly
\* when every primary-key column is bound to a value, partial-key detection
\* exactly when some but not all are bound; an exact predicate produces one
\* getRow with a complete primary key, every other predicate a getRange.
C11_ModeDetection ==
    (qcall.op \in {"getMany", "find"})
    => /\ ~(qcall.exact /\ qcall.partial)
       /\ qcall.exact <=> AllBound(qb.entityClass, qcall.where)
       /\ qcall.partial <=> (/\ SomeBound(qb.entityClass, qcall.where)
                             /\ ~AllBound(qb.entityClass, qcall.where))
       /\ Len(requests) = 1
       /\ IF AllBound(qb.entityClass, qcall.where)
          THEN /\ requests[1].op = "getRow"
               /\ CompleteKey(qb.entityClass, requests[1].primaryKey)
          ELSE requests[1].op = "getRange"

\* the rows a where condition matches: every column it binds has its value
Matching(condition) ==
    {r \in rows : \A i \in 1..Len(condition) :
                     Get(r.primaryKey, condition[i].k) = condition[i].v}

\* the rows a pagination is to return, in its order
Expected ==
    Scan(Matching(pagination.where.o),
         IF pagination.order = "DESC" THEN "BACKWARD" ELSE "FORWARD")

\* C12: on a table that does not change, for any limit >= 1, order ASC or
\* DESC and a where that binds a proper prefix of the key columns or nothing,
\* calling page with the cursor of the page before until hasNext is false
\* terminates (after at most one call per matching row, or one call when
\* none matches) and returns every matching row exactly once, in key order
\* for ASC and reverse key order for DESC, at most limit rows per page.
C12_PaginationComplete ==
    (/\ pagination.first = NoCursor
     /\ ~AllBound(qb.entityClass, pagination.where.o)
     /\ pageResult.result # "threw")
    => /\ Len(pagination.items) <= Len(Expected)
       /\ pagination.items = SubSeq(Expected, 1, Len(pagination.items))
       /\ Len(pageResult.items) <= pagination.limit
       /\ pagination.done => pagination.items = Expected
       /\ pagination.calls <= Len(Expected) + 1

\* a descending pagination over the rows of one category has ended after two
\* pages of one row
C12_Witness ==
    /\ pagination.first = NoCursor
    /\ pagination.where.given
    /\ SomeBound(qb.entityClass, pagination.where.o)
    /\ ~AllBound(qb.entityClass, pagination.where.o)
    /\ pagination.order = "DESC"
    /\ pagination.limit = 1
    /\ pagination.calls = 2
    /\ pagination.done
    /\ Len(pagination.items) = 2
    /\ Cardinality(rows) = 3

\* C13: in every result of page, hasNext is true exactly when the store's
\* range-scan response carried a next start key, nextCursor is present
\* exactly when hasNext is true, and decoding nextCursor gives the
\* name-to-value map of that next start key; a page answered by a point
\* lookup has hasNext false and no nextCursor.
C13_CursorIsNextStartKey ==
    pageResult.result = "returned"
    => /\ pageResult.hasNext <=> response.nextStartPrimaryKey # <<>>
       /\ pageResult.nextCursor # NoCursor <=> pageResult.hasNext
       /\ pageResult.hasNext
          => /\ decodeCursor(pageResult.nextCursor).ok
             /\ decodeCursor(pageResult.nextCursor).t = "object"
             /\ decodeCursor(pageResult.nextCursor).o = response.nextStartPrimaryKey
       /\ requests[1].op = "getRow"
          => ~pageResult.hasNext /\ pageResult.nextCursor = NoCursor

\* a page of a descending range scan came back with a next start key
C13_Witness ==
    /\ pageResult.result = "returned"
    /\ requests[1].op = "getRange"
    /\ requests[1].direction = "BACKWARD"
    /\ response.nextStartPrimaryKey # <<>>
    /\ pageResult.hasNext

\* C14: decodeCursor(encodeCursor(k)) = k for every key map k from column
\* names to string or integer values.
C14_RoundTrip ==
    decoded # NoStartAfter
    => /\ decoded.ok
       /\ decoded.t = "object"
       /\ decoded.o = keyMap

\* a key map with a string that holds a quote and a backslash went through
\* the codec
C14_Witness ==
    /\ decoded # NoStartAfter
    /\ Len(keyMap) = 2
    /\ keyMap[1].v = JsString(<<34, 92>>)
    /\ keyMap[2].v.t = "number"

\* C15 (as claimed): page with a cursor that is malformed or was tampered
\* with fails with the invalid-cursor error before any request is handed to
\* the store client; it never answers as if no cursor had been given.
C15_TamperedCursorRejected ==
    (/\ qcall.op = "page"
     /\ pagination.first \in TamperedCursors
     /\ pagination.calls = 1)
    => /\ pageResult = PageThrew("InvalidCursor")
       /\ requests = <<>>

\* the property names of the entity's columns
ColumnNames == {filterColumns[i] : i \in 1..Len(filterColumns)}

ComparatorMethods ==
    {"equals", "notEqual", "greaterThan", "greaterThanOrEqual", "lessThan",
     "lessThanOrEqual"}

\* C16: a comparator on a field that is not a column of the entity throws,
\* and() and or() without conditions throw, every other and(), or() and
\* not() builds a tree whose children are the given conditions in the given
\* order (one for not()), and no request has been handed to the store
C16_FilterValidation ==
    /\ (filter.method \in ComparatorMethods /\ filter.field \notin ColumnNames)
          => filter.outcome = FilterThrew("FieldNotInEntity")
    /\ (filter.method = "and" /\ filter.conditions = <<>>)
          => filter.outcome = FilterThrew("AndNeedsCondition")
    /\ (filter.method = "or" /\ filter.conditions = <<>>)
          => filter.outcome = FilterThrew("OrNeedsCondition")
    /\ (filter.method \in {"and", "or"} /\ filter.conditions # <<>>)
          => /\ filter.outcome.result = "built"
             /\ filter.outcome.condition.combinator =
                   (IF filter.method = "and" THEN "AND" ELSE "OR")
             /\ filter.outcome.condition.sub_conditions = filter.conditions
    /\ filter.method = "not"
          => /\ filter.outcome.result = "built"
             /\ filter.outcome.condition.combinator = "NOT"
             /\ filter.outcome.condition.sub_conditions = filter.conditions
             /\ Len(filter.outcome.condition.sub_conditions) = 1
    /\ filter.method # "none" => requests = <<>> /\ sent = <<>>

\* a comparator was called on a field the entity does not have
C16_Witness ==
    /\ filter.method = "lessThanOrEqual"
    /\ filter.field = "nonExistentField"
    /\ filter.outcome.result = "threw"

\* the row of the table with the key values of a condition, if any
RowsAt(condition) ==
    {r \in rows : \A i \in 1..Len(r.primaryKey) :
                     Get(condition, r.primaryKey[i].k) = r.primaryKey[i].v}

\* C17: a point lookup with a full primary key that is not in the table,
\* answered by the store, returns an empty result and raises no error: no
\* entities from the query builder, null from EntityManager.findOne and from
\* Transaction.findOne
C17_AbsentKeyIsEmpty ==
    /\ (/\ qpc = "idle"
        /\ qcall.op \in {"getMany", "entityManagerFindOne"}
        /\ AllBound(qb.entityClass, qcall.where)
        /\ RowsAt(qcall.where) = {}
        /\ response.error = "none")
          => /\ requests[1].op = "getRow"
             /\ result = QueryResult(<<>>, <<>>)
    /\ (/\ pc = "idle"
        /\ call.op = "findOne"
        /\ reply \in {"empty", "notFound"})
          => outcome = Returned("null")

\* EntityManager.findOne looked a full key up that the table does not have
C17_Witness ==
    /\ qpc = "idle"
    /\ qcall.op = "entityManagerFindOne"
    /\ AllBound(qb.entityClass, qcall.where)
    /\ rows # {}
    /\ RowsAt(qcall.where) = {}
    /\ response.error = "none"
    /\ result.result = "returned"

\* C18: when the store client raises an error during save, update, delete
\* or findOne (a row-not-found answer to a point lookup is not one), the
\* operation ends there with that error thrown to its caller, and no
\* operation hands the same request to the store twice
C18_StoreErrorsReachCaller ==
    call.op \in {"save", "update", "delete", "findOne"}
       => /\ reply = "error" => (pc = "idle" /\ outcome.result = "threw")
          /\ \A i \in 1..Len(sent), j \in 1..Len(sent) :
                sent[i] = sent[j] => i = j

\* C19: when two update() calls on the same row overlap and both have read
\* the version, then once both have settled either one of them was rejected
\* or the stored version is the initial version plus 2, and two successful
\* updates have not written the same version number
C19_ConcurrentUpdates ==
    (/\ \A p \in Updaters : updates[p].pc = "done" /\ ~updates[p].readFailed
     /\ \E p \in Updaters : updates[p].overlapped)
       => /\ \/ \E p \in Updaters : updates[p].outcome.result = "threw"
             \/ stored = initial + 2
          /\ (\A p \in Updaters : updates[p].outcome.result = "returned")
                => updates[1].newVersion # updates[2].newVersion

\* C20: every entity Repository.findDeleted returns has a non-null
\* delete-date column: a row that is not soft-deleted is never returned
C20_FindDeletedOnlyDeleted ==
    (qpc = "idle" /\ qcall.op = "findDeleted" /\ result.result = "returned")
       => \A i \in 1..Len(result.entities) : result.entities[i].deletedAt # JsNull

\* the where condition binds exactly the first m key columns
PrefixBound(cls, condition, m) ==
    \A i \in 1..Len(queryMetadata(cls).primaryColumns) :
        Bound(condition, queryMetadata(cls).primaryColumns[i]) <=> i <= m

\* the order the query was given
OrderOf(b) ==
    IF b._orderBy # <<>> /\ b._orderBy[1].v = "DESC" THEN "DESC" ELSE "ASC"

\* a range scan was sent for a query planned from its where condition
RangeScanSent ==
    /\ qpc # "none"
    /\ qcall.op \in {"getMany", "find", "findDeleted"}
    /\ requests # <<>>
    /\ requests[1].op = "getRange"

\* C21: when the where condition binds the first m of the n key columns
\* (m < n), the start boundary of the range scan carries the bound values at
\* the first m positions and at the next position INF_MIN for ASC and
\* INF_MAX for DESC; the end boundary carries the same values and the
\* opposite sentinel
C21_PrefixBoundaries ==
    RangeScanSent =>
       \A m \in 0..(Len(queryMetadata(qb.entityClass).primaryColumns) - 1) :
          PrefixBound(qb.entityClass, qcall.where, m) =>
             LET columns == queryMetadata(qb.entityClass).primaryColumns
                 start == requests[1].inclusiveStartPrimaryKey
                 end == requests[1].exclusiveEndPrimaryKey
                 asc == OrderOf(qb) = "ASC"
             IN /\ \A i \in 1..m :
                      /\ start[i] = Property(columns[i], Get(qcall.where, columns[i]))
                      /\ end[i] = start[i]
                /\ start[m + 1] =
                      Property(columns[m + 1], IF asc THEN INF_MIN ELSE INF_MAX)
                /\ end[m + 1] =
                      Property(columns[m + 1], IF asc THEN INF_MAX ELSE INF_MIN)

\* a descending query whose where binds the first key column only
C21_Witness ==
    /\ RangeScanSent
    /\ PrefixBound(qb.entityClass, qcall.where, 1)
    /\ OrderOf(qb) = "DESC"
    /\ requests[1].inclusiveStartPrimaryKey[2].v = INF_MAX

Sentinels == {INF_MIN, INF_MAX}

\* in a boundary, every column after a sentinel carries that sentinel
SentinelsSupersede(boundary) ==
    \A i \in 1..Len(boundary), j \in 1..Len(boundary) :
        (i < j /\ boundary[i].v \in Sentinels) => boundary[j].v = boundary[i].v

\* C22: in both boundaries of every range scan built by auto-completion (by
\* the query builder from where, by EntityManager.findOne from its primary
\* keys), every column after the first unbound one carries the sentinel of
\* that column: a value bound after the first missing column is not emitted
C22_SentinelsSupersede ==
    (/\ qpc # "none"
     /\ qcall.op \in {"getMany", "entityManagerFindOne"}
     /\ requests # <<>>
     /\ requests[1].op = "getRange")
       => /\ SentinelsSupersede(requests[1].inclusiveStartPrimaryKey)
          /\ SentinelsSupersede(requests[1].exclusiveEndPrimaryKey)

\* C23: a range scan planned from where and the defaults is FORWARD exactly
\* when the order is ASC or unset and BACKWARD exactly when it is DESC, and
\* its inclusive start key is not above its exclusive end key when FORWARD
\* and not below it when BACKWARD
C23_DirectionAndBoundaryOrder ==
    RangeScanSent =>
       LET start == KeyValuesOf(requests[1].inclusiveStartPrimaryKey)
           end == KeyValuesOf(requests[1].exclusiveEndPrimaryKey)
       IN /\ requests[1].direction \in {"FORWARD", "BACKWARD"}
          /\ requests[1].direction = "FORWARD" <=> OrderOf(qb) = "ASC"
          /\ requests[1].direction = "FORWARD" => ~KeyLess(end, start)
          /\ requests[1].direction = "BACKWARD" => ~KeyLess(start, end)

\* a descending scan over the rows of one category
C23_Witness ==
    /\ RangeScanSent
    /\ OrderOf(qb) = "DESC"
    /\ requests[1].direction = "BACKWARD"
    /\ PrefixBound(qb.entityClass, qcall.where, 1)
    /\ KeyLess(KeyValuesOf(requests[1].exclusiveEndPrimaryKey),
               KeyValuesOf(requests[1].inclusiveStartPrimaryKey))

\* C24: every request save, update, delete, findOne and batchWrite of a
\* transaction hand to the store client, the read that prepares a write
\* included, carries the id of the transaction
C24_RequestsCarryTransactionId ==
    (pc # "none" /\ call.op \in {"save", "update", "delete", "findOne", "batchWrite"})
       => \A i \in 1..Len(sent) : sent[i].transactionId = transactionId

\* the update() calls that have returned the entity
Succeeded == {p \in Updaters : updates[p].outcome.result = "returned"}

\* C25: k successive successful updates of an existing row take its version
\* from v to v + k: when the calls did not overlap and every call made has
\* returned, the stored version is the initial version plus their number
C25_SuccessiveUpdates ==
    (/\ updates # <<>>
     /\ \A p \in Updaters : /\ updates[p].pc \in {"idle", "done"}
                            /\ ~updates[p].overlapped
                            /\ updates[p].pc = "done" => p \in Succeeded)
       => stored = initial + Cardinality(Succeeded)

\* C26: when page is called with a cursor that binds only the first key
\* column, the start boundary of its range scan carries that value and, at
\* the next column, INF_MIN for ASC and INF_MAX for DESC, and it is the
\* boundary the builder gives when startWith is called after orderBy
C26_PrefixCursorCompletion ==
    (/\ qpc # "none"
     /\ qcall.op = "page"
     /\ pagination.first \in PrefixCursors
     /\ pagination.calls = 1
     /\ requests # <<>>
     /\ requests[1].op = "getRange")
       => LET startAfter == decodeCursor(pagination.first).o
              order == IF pagination.order = "DESC" THEN "DESC" ELSE "ASC"
              start == requests[1].inclusiveStartPrimaryKey
          IN /\ start[1] = Property("category", Get(startAfter, "category"))
             /\ start[2] = Property("id", IF order = "ASC" THEN INF_MIN ELSE INF_MAX)
             /\ start = startWith(orderBy(QueryBuilder(qb.entityClass), order),
                                  startAfter)._startPrimaryKey

\* C27: the request of a query chained on a builder that has already run a
\* query is the request a new builder sends for the same chain: the where,
\* the limit and the boundaries of the earlier query do not decide it
C27_BuilderReuse ==
    (qpc # "none" /\ qcall.op = "getManyAgain")
       => requests[1] =
             executeQueryRequest(where(QueryBuilder(qb.entityClass), qcall.where))

\* C28: under overlapping calls the status never leaves COMMITTED, ABORTED
\* or TIMEOUT once it has reached one of them, and the store never receives
\* both a commitTransaction and an abortTransaction for the transaction
C28_TerminalUnderOverlap ==
    /\ [][(status \in Terminal) => (status' = status)]_vars
    /\ [](~(\E i \in 1..Len(received), j \in 1..Len(received) :
               /\ received[i] = "commitTransaction"
               /\ received[j] = "abortTransaction"))

\* C29: when runInTransaction has settled on a transaction that nobody had
\* committed or rolled back before (the status was ACTIVE when its own
\* commit or rollback was entered), the store client was sent a
\* commitTransaction that succeeded or an abortTransaction
C29_RunInTransactionCloses ==
    (/\ rit = "done"
     /\ call.by = "runInTransaction"
     /\ call.statusBefore = ACTIVE)
       => \/ call.op = "commit" /\ reply = "ok"
          \/ \E i \in 1..Len(sent) : sent[i].op = "abortTransaction"

\* C30: every putRow, updateRow, deleteRow, getRow and batchWriteRow request
\* of a Transaction call names the table the transaction was started on
C30_RequestsTargetTransactionTable ==
    \A i \in 1..Len(sent) :
        (sent[i].op \in {"putRow", "updateRow", "deleteRow", "getRow",
                         "batchWriteRow"})
            => sent[i].table = tableName

====
